---- MODULE Spec2Model ----
(***************************************************************************)
(* A model of obsidian-readlater: the headless CLI run (src/cli.ts main),  *)
(* the plugin's sync loop (main.ts syncAllProviders), the browser-driven   *)
(* provider lifecycle (providers/base.ts) and the output target            *)
(* (sync/obsidian-sync.ts, cli.ts saveArticles, main.ts saveArticles).     *)
(*                                                                         *)
(* Text is modelled by TLA+ strings, so that separators and template       *)
(* placeholders are compared character by character.                       *)
(***************************************************************************)
EXTENDS Integers, Sequences, FiniteSets, TLC

VARIABLES
    \* The output targets the three writers work on, and what was applied.
    fDirect,    \* the file cli.ts saveArticles writes (direct file mode)
    fVault,     \* the file ObsidianSyncManager writes (working-copy mode)
    fNote,      \* the note main.ts saveArticles writes
    fileLog,    \* the operations applied so far, oldest first
    filePrev    \* the three targets before the last operation

fileVars == <<fDirect, fVault, fNote, fileLog, filePrev>>

VARIABLES
    \* The headless CLI (cli.ts main).
    cliPc,          \* where main is: "idle", "load", "resolve", "vault", "registry",
                    \* "auth", "fetch", "save", "summary", "exit"
    settings,       \* the ReadLaterSettings of the run
    vault,          \* the vault path given, and what is found there
    useGitSync,     \* rawConfig.gitSync || options.gitSync
    cliProviders,   \* registry.getEnabledProviders(), the instances of the run
    cliIdx,         \* the position of the loop in cliProviders
    cliResults,     \* results
    allArticles,    \* allArticles
    cliExit,        \* the exit status, NoExit while main runs
    cliEvents,      \* what main has done so far, oldest first
    git             \* the repository of the vault

cliVars == <<cliPc, settings, vault, useGitSync, cliProviders, cliIdx,
             cliResults, allArticles, cliExit, cliEvents, git>>

VARIABLES
    \* The plugin (main.ts ReadLaterPlugin).
    plugin,     \* loaded or not, this.syncInterval and the window's timers
    runs,       \* the invocations of syncAllProviders, in the order they began
    now         \* the clock new Date() reads

pluginVars == <<plugin, runs, now>>

VARIABLES
    \* A ProviderRegistry on its own (providers/registry.ts).
    registry    \* the settings document it was constructed with, as its
                \* entries in key order, and the last call and what it returned

VARIABLES
    \* A CredentialManager on its own (credentials/manager.ts).
    credManager \* which secret-manager tools are installed, and the last
                \* call, the backend calls it made and what it returned

VARIABLES
    \* formatArticle called on its own (cli.ts, main.ts).
    rendering   \* the template, the article and what formatArticle returned

VARIABLES
    \* A BrowserProvider on its own (providers/base.ts).
    browserProvider \* the instance (its browser and page fields) and the
                    \* calls made on it so far, oldest first

vars == <<fileVars, cliVars, pluginVars, registry, credManager, rendering,
          browserProvider>>

(***************************************************************************)
(* Bounds of the model.                                                    *)
(***************************************************************************)
\* Timers the plugin sets when only its timer is looked at.
MaxTimers == 3

\* Segments of a template given to formatArticle on its own.
MaxSegments == 2

\* Calls made on a BrowserProvider on its own.
MaxCalls == 3
\* Operations applied to the output targets in SpecFile.
MaxFileOps == 3
\* Providers enabled in a settings document.
MaxEnabled == 2
\* Articles one provider has saved.
MaxArticles == 2
\* Entries of settings.providers in a document given to a registry.
MaxDocKeys == 3
\* Invocations of syncAllProviders of one plugin instance.
MaxRuns == 2
\* Calls of window.setInterval of one plugin instance.
MaxIntervals == 1
\* Provider lifecycles (calls of authenticate that resolve) of one plugin
\* instance, over all its invocations of syncAllProviders.
MaxLifecycles == 2

(***************************************************************************)
(* Strings: String.prototype.replace with a global regular expression.     *)
(***************************************************************************)
CharAt(s, k) == SubSeq(s, k, k)

\* Whether pat occurs in s at position i.
MatchesAt(s, i, pat) ==
    /\ i + Len(pat) - 1 <= Len(s)
    /\ SubSeq(s, i, i + Len(pat) - 1) = pat

\* The replacement patterns of String.prototype.replace: $$, $&, $`, $' and,
\* for a regular expression with one capture group, $1 and $01.  s is the
\* subject, ms..me the match, hasGroup/group the capture group.
RECURSIVE ExpandReplacement(_, _, _, _, _, _, _)
ExpandReplacement(rep, k, s, ms, me, hasGroup, group) ==
    IF k > Len(rep) THEN ""
    ELSE IF CharAt(rep, k) # "$" \/ k = Len(rep)
    THEN CharAt(rep, k) \o ExpandReplacement(rep, k + 1, s, ms, me, hasGroup, group)
    ELSE LET n == CharAt(rep, k + 1) IN
         CASE n = "$" -> "$" \o ExpandReplacement(rep, k + 2, s, ms, me, hasGroup, group)
           [] n = "&" -> SubSeq(s, ms, me)
                           \o ExpandReplacement(rep, k + 2, s, ms, me, hasGroup, group)
           [] n = "`" -> SubSeq(s, 1, ms - 1)
                           \o ExpandReplacement(rep, k + 2, s, ms, me, hasGroup, group)
           [] n = "'" -> SubSeq(s, me + 1, Len(s))
                           \o ExpandReplacement(rep, k + 2, s, ms, me, hasGroup, group)
           [] n = "1" /\ hasGroup ->
                 group \o ExpandReplacement(rep, k + 2, s, ms, me, hasGroup, group)
           [] n = "0" /\ hasGroup /\ k + 2 <= Len(rep) /\ CharAt(rep, k + 2) = "1" ->
                 group \o ExpandReplacement(rep, k + 3, s, ms, me, hasGroup, group)
           [] OTHER -> "$" \o ExpandReplacement(rep, k + 1, s, ms, me, hasGroup, group)

\* s.replace(/pat/g, rep) for a pattern without metacharacters, from position i.
RECURSIVE ReplaceFrom(_, _, _, _)
ReplaceFrom(s, i, pat, rep) ==
    IF i > Len(s) THEN ""
    ELSE IF MatchesAt(s, i, pat)
    THEN ExpandReplacement(rep, 1, s, i, i + Len(pat) - 1, FALSE, "")
           \o ReplaceFrom(s, i + Len(pat), pat, rep)
    ELSE CharAt(s, i) \o ReplaceFrom(s, i + 1, pat, rep)

ReplaceAll(s, pat, rep) == ReplaceFrom(s, 1, pat, rep)

\* The least j >= i at which pat occurs in s, or 0.
RECURSIVE FindFrom(_, _, _)
FindFrom(s, i, pat) ==
    IF i + Len(pat) - 1 > Len(s) THEN 0
    ELSE IF MatchesAt(s, i, pat) THEN i
    ELSE FindFrom(s, i + 1, pat)

\* s.replace(/open([\s\S]*?)close/g, rep): the lazy group ends at the first
\* close after the open.
RECURSIVE ReplaceBlocksFrom(_, _, _, _, _)
ReplaceBlocksFrom(s, i, open, close, rep) ==
    IF i > Len(s) THEN ""
    ELSE LET j == IF MatchesAt(s, i, open) THEN FindFrom(s, i + Len(open), close) ELSE 0
         IN IF j > 0
            THEN ExpandReplacement(rep, 1, s, i, j + Len(close) - 1, TRUE,
                                   SubSeq(s, i + Len(open), j - 1))
                   \o ReplaceBlocksFrom(s, j + Len(close), open, close, rep)
            ELSE CharAt(s, i) \o ReplaceBlocksFrom(s, i + 1, open, close, rep)

ReplaceBlocks(s, open, close, rep) == ReplaceBlocksFrom(s, 1, open, close, rep)

\* Array.prototype.join.
RECURSIVE Join(_, _)
Join(parts, sep) ==
    IF Len(parts) = 0 THEN ""
    ELSE IF Len(parts) = 1 THEN parts[1]
    ELSE parts[1] \o sep \o Join(Tail(parts), sep)

(***************************************************************************)
(* Articles and the template renderer (formatArticle).                     *)
(***************************************************************************)
\* An absent optional field of a ReadLaterArticle.  The optional tags are a
\* sequence, absent tags the empty one: formatArticle treats the two alike.
Undefined == "<undefined>"

\* JavaScript's a || b on strings: undefined and "" are falsy.
OrElse(a, b) == IF a = Undefined \/ a = "" THEN b ELSE a

Truthy(a) == a # Undefined /\ a # ""

\* Replacing by an absent value: String.prototype.replace converts the
\* replacement to a string.
ToStr(a) == IF a = Undefined THEN "undefined" ELSE a

\* A slip in formatArticle: a block of an absent field loses its delimiters
\* and keeps its inner text.
formatArticle_KeepInner(article, template) ==
    LET r1 == ReplaceAll(template, "{{title}}", OrElse(article.title, "Untitled"))
        r2 == ReplaceAll(r1, "{{url}}", ToStr(article.url))
        r3 == ReplaceAll(r2, "{{source}}", ToStr(article.source))
        r4 == ReplaceAll(r3, "{{author}}", OrElse(article.author, "Unknown"))
        r5 == ReplaceAll(r4, "{{date}}", OrElse(article.publicationDate, ""))
        r6 == IF Truthy(article.excerpt)
              THEN ReplaceAll(ReplaceBlocks(r5, "{{#if excerpt}}", "{{/if}}", "$1"),
                              "{{excerpt}}", article.excerpt)
              ELSE ReplaceBlocks(r5, "{{#if excerpt}}", "{{/if}}", "$1")
        r7 == IF Len(article.tags) > 0
              THEN ReplaceAll(ReplaceBlocks(r6, "{{#if tags}}", "{{/if}}", "$1"),
                              "{{tags}}", Join(article.tags, ", "))
              ELSE ReplaceBlocks(r6, "{{#if tags}}", "{{/if}}", "$1")
    IN r7

formatArticle(article, template) ==
    LET r1 == ReplaceAll(template, "{{title}}", OrElse(article.title, "Untitled"))
        r2 == ReplaceAll(r1, "{{url}}", ToStr(article.url))
        r3 == ReplaceAll(r2, "{{source}}", ToStr(article.source))
        r4 == ReplaceAll(r3, "{{author}}", OrElse(article.author, "Unknown"))
        r5 == ReplaceAll(r4, "{{date}}", OrElse(article.publicationDate, ""))
        r6 == IF Truthy(article.excerpt)
              THEN ReplaceAll(ReplaceBlocks(r5, "{{#if excerpt}}", "{{/if}}", "$1"),
                              "{{excerpt}}", article.excerpt)
              ELSE ReplaceBlocks(r5, "{{#if excerpt}}", "{{/if}}", "")
        r7 == IF Len(article.tags) > 0
              THEN ReplaceAll(ReplaceBlocks(r6, "{{#if tags}}", "{{/if}}", "$1"),
                              "{{tags}}", Join(article.tags, ", "))
              ELSE ReplaceBlocks(r6, "{{#if tags}}", "{{/if}}", "")
    IN r7

\* articles.map(article => formatArticle(article, template)).join('\n')
FormatAll(articles, template) ==
    Join([k \in 1..Len(articles) |-> formatArticle(articles[k], template)], "\n")

(***************************************************************************)
(* The output target: a file that is absent or holds content.              *)
(***************************************************************************)
Absent == [exists |-> FALSE, content |-> ""]

File(c) == [exists |-> TRUE, content |-> c]

\* ObsidianSyncManager.writeFile: the content replaces what was there.
writeFile(f, content) == File(content)

\* A slip in appendFile: the separator is a single line break.
appendFile_OneNewline(f, content) ==
    LET existing == IF f.exists THEN f.content ELSE ""
    IN File(IF existing # "" THEN existing \o "\n" \o content ELSE content)

\* ObsidianSyncManager.appendFile.
appendFile(f, content) ==
    LET existing == IF f.exists THEN f.content ELSE ""
    IN File(IF existing # "" THEN existing \o "\n\n" \o content ELSE content)

\* ObsidianSyncManager.readFile.
readFile(f) == IF f.exists THEN f.content ELSE Undefined

\* cli.ts saveArticles, the write to outputPath (lines 233-238).
CliWriteOutput(f, formatted, append) ==
    IF append /\ f.exists
    THEN File(f.content \o "\n\n" \o formatted)
    ELSE File(formatted)

\* main.ts saveArticles, the write to the note (lines 182-190); the note
\* exists by then (it is created empty when missing, lines 166-172).
PluginWriteNote(existingContent, formattedArticles, appendMode) ==
    IF appendMode
    THEN File(IF existingContent # ""
              THEN existingContent \o "\n\n" \o formattedArticles
              ELSE formattedArticles)
    ELSE File(formattedArticles)

\* main.ts saveArticles from the lookup of the note on (lines 163-190), for a
\* path that is no folder: a missing note is created empty first.
PluginSaveNote(f, formattedArticles, appendMode) ==
    LET file == IF f.exists THEN f ELSE File("")
    IN PluginWriteNote(file.content, formattedArticles, appendMode)


(***************************************************************************)
(* The provider catalog (providers/registry.ts).                           *)
(***************************************************************************)
\* registerProviders: the identifiers in registration order.
Catalog == <<"wired", "guardian", "hbr", "medium", "irishtimes">>

Names == {Catalog[k] : k \in 1..Len(Catalog)}

displayName(name) ==
    CASE name = "wired" -> "Wired.com"
      [] name = "guardian" -> "The Guardian"
      [] name = "hbr" -> "Harvard Business Review"
      [] name = "medium" -> "Medium"
      [] name = "irishtimes" -> "Irish Times"

\* new ProviderClass(config): a BrowserProvider holds no browser and no page.
NewProvider(name) == [name |-> name, browser |-> FALSE, page |-> FALSE]

\* settings.providers[name] of an identifier the document does not hold.
NoConfig == [present |-> FALSE, enabled |-> FALSE,
             credentials |-> [username |-> Undefined, password |-> Undefined],
             lastSync |-> 0]

\* A slip in getEnabledProviders: the enabled flag is not looked at.
RECURSIVE EnabledFrom_IgnoreFlag(_, _)
EnabledFrom_IgnoreFlag(providers, k) ==
    IF k > Len(Catalog) THEN <<>>
    ELSE (IF providers[Catalog[k]].present
          THEN <<NewProvider(Catalog[k])>> ELSE <<>>)
           \o EnabledFrom_IgnoreFlag(providers, k + 1)

\* The loop of getEnabledProviders over this.providers.entries(), from
\* position k of the registration order.
RECURSIVE EnabledFrom(_, _)
EnabledFrom(providers, k) ==
    IF k > Len(Catalog) THEN <<>>
    ELSE (IF providers[Catalog[k]].present /\ providers[Catalog[k]].enabled
          THEN <<NewProvider(Catalog[k])>> ELSE <<>>)
           \o EnabledFrom(providers, k + 1)

getEnabledProviders(providers) == EnabledFrom(providers, 1)

\* What getProvider returns when it returns null.
NullProvider == [null |-> TRUE]

\* A slip in getProvider: a disabled entry is treated as no entry.
getProvider_EnabledOnly(providers, name) ==
    IF name \notin Names \/ ~providers[name].present \/ ~providers[name].enabled
    THEN NullProvider
    ELSE NewProvider(name)

\* getProvider: null when no class is registered under the name or the
\* document has no entry for it, an instance otherwise.
getProvider(providers, name) ==
    IF name \notin Names \/ ~providers[name].present
    THEN NullProvider
    ELSE NewProvider(name)

\* A slip in getAllProviderNames: only the identifiers the settings document
\* holds are listed.
getAllProviderNames_ConfiguredOnly ==
    SelectSeq(Catalog,
              LAMBDA n : \E k \in 1..Len(registry.document) :
                             registry.document[k].key = n)

\* getAllProviderNames: the keys of the map, in registration order.
getAllProviderNames == Catalog

(***************************************************************************)
(* The browser-driven provider (providers/base.ts BrowserProvider).        *)
(***************************************************************************)
\* How far authenticate gets: chromium.launch, newPage, goto(loginUrl) or
\* performLogin may throw; isAuthenticated answers false or true.
AuthOutcomes == {"launchThrows", "newPageThrows", "gotoThrows", "loginThrows",
                 "notAuthenticated", "authenticated"}

\* A slip in authenticate: chromium.launch is called before the try, so its
\* exception leaves authenticate.
authenticate_LaunchOutsideTry(p, outcome) ==
    [provider |-> [p EXCEPT !.browser = (outcome # "launchThrows"),
                            !.page = (outcome \notin {"launchThrows", "newPageThrows"})],
     threw |-> (outcome = "launchThrows"),
     ret |-> (outcome = "authenticated")]

\* BrowserProvider.authenticate: every exception is caught and answered false;
\* the browser and the page opened up to there stay in the fields.  threw
\* tells whether authenticate ends in an exception.
authenticate(p, outcome) ==
    [provider |-> [p EXCEPT !.browser = (outcome # "launchThrows"),
                            !.page = (outcome \notin {"launchThrows", "newPageThrows"})],
     threw |-> FALSE,
     ret |-> (outcome = "authenticated")]

\* BrowserProvider.cleanup.
cleanup(p) == [p EXCEPT !.page = FALSE, !.browser = FALSE]

\* The article number j a provider has saved, as extractArticles maps it.
ArticleOf(name, j) ==
    [title |-> IF j = 1 THEN "A1" ELSE "A2",
     url |-> IF j = 1 THEN "/1" ELSE "/n",
     author |-> IF j = 1 THEN Undefined ELSE "Ann",
     publicationDate |-> Undefined,
     excerpt |-> IF j = 1 THEN "hi" ELSE Undefined,
     tags |-> <<>>,
     source |-> displayName(name)]

\* What the saved-items page may hold: 0..MaxArticles articles.
SavedArticles(name) ==
    {[j \in 1..n |-> ArticleOf(name, j)] : n \in 0..MaxArticles}

\* What fetchArticles may meet: goto(readLaterUrl) throws, extractArticles
\* throws, or the page holds some articles.
GotoError == "page.goto: net::ERR_CONNECTION_REFUSED"

ExtractError == "page.$$eval: Target closed"

FetchOutcomes(name) ==
    {[kind |-> "gotoThrows", articles |-> <<>>],
     [kind |-> "extractThrows", articles |-> <<>>]}
    \cup {[kind |-> "extracted", articles |-> a] : a \in SavedArticles(name)}

\* BrowserProvider.fetchArticles: threw tells whether it ends in an exception,
\* calls what it called on the way: page.goto(readLaterUrl), extractArticles,
\* cleanup.
fetchArticles(p, outcome) ==
    IF ~p.page
    THEN [provider |-> p, threw |-> TRUE, message |-> "Not authenticated",
          articles |-> <<>>, calls |-> <<>>]
    ELSE IF outcome.kind = "gotoThrows"
    THEN [provider |-> p, threw |-> TRUE, message |-> GotoError, articles |-> <<>>,
          calls |-> <<"goto">>]
    ELSE IF outcome.kind = "extractThrows"
    THEN [provider |-> p, threw |-> TRUE, message |-> ExtractError,
          articles |-> <<>>, calls |-> <<"goto", "extractArticles">>]
    ELSE [provider |-> cleanup(p), threw |-> FALSE, message |-> Undefined,
          articles |-> outcome.articles,
          calls |-> <<"goto", "extractArticles", "cleanup">>]

(***************************************************************************)
(* The credential manager (credentials/manager.ts).                        *)
(***************************************************************************)
StartsWith(s, prefix) == MatchesAt(s, 1, prefix)

\* String.prototype.replace with a string pattern: the first occurrence.
ReplaceFirst(s, pat, rep) ==
    LET j == FindFrom(s, 1, pat)
    IN IF j = 0 THEN s
       ELSE SubSeq(s, 1, j - 1) \o rep \o SubSeq(s, j + Len(pat), Len(s))

\* A slip in parseReference: the env pointer keeps its prefix.
parseReference_KeepEnvPrefix(ref) ==
    IF StartsWith(ref, "op://")
    THEN [isRef |-> TRUE, provider |-> "1password", reference |-> ref]
    ELSE IF StartsWith(ref, "bw://")
    THEN [isRef |-> TRUE, provider |-> "bitwarden", reference |-> ref]
    ELSE IF StartsWith(ref, "env://")
    THEN [isRef |-> TRUE, provider |-> "env", reference |-> ref]
    ELSE [isRef |-> FALSE, provider |-> "plain", reference |-> ref]

\* parseReference: a CredentialReference, or the plain string.
parseReference(ref) ==
    IF StartsWith(ref, "op://")
    THEN [isRef |-> TRUE, provider |-> "1password", reference |-> ref]
    ELSE IF StartsWith(ref, "bw://")
    THEN [isRef |-> TRUE, provider |-> "bitwarden", reference |-> ref]
    ELSE IF StartsWith(ref, "env://")
    THEN [isRef |-> TRUE, provider |-> "env",
          reference |-> ReplaceFirst(ref, "env://", "")]
    ELSE [isRef |-> FALSE, provider |-> "plain", reference |-> ref]

\* registerProviders of the manager: the names backends are registered under.
Registered == {"1password", "bitwarden", "env"}

\* String.prototype.trim: blanks, line breaks and tabs go from both ends.
RECURSIVE TrimStart(_)
TrimStart(s) ==
    IF Len(s) > 0 /\ CharAt(s, 1) \in {" ", "\n", "\t"}
    THEN TrimStart(SubSeq(s, 2, Len(s))) ELSE s

RECURSIVE TrimEnd(_)
TrimEnd(s) ==
    IF Len(s) > 0 /\ CharAt(s, Len(s)) \in {" ", "\n", "\t"}
    THEN TrimEnd(SubSeq(s, 1, Len(s) - 1)) ELSE s

Trim(s) == TrimEnd(TrimStart(s))

\* What a backend method hands back: a value, or an exception.
Return(v) == [threw |-> FALSE, value |-> v]

Throw == [threw |-> TRUE, value |-> Undefined]

\* try { ... } catch { return v }.
Catch(r, v) == IF r.threw THEN Return(v) ELSE r

\* isAvailable of the 1Password and Bitwarden backends: execSync of the
\* tool's --version throws when the tool cannot be run.  The env backend
\* answers true.
isAvailable(name, installed) ==
    IF name = "env" THEN Return(TRUE)
    ELSE Catch(IF name \in installed THEN Return(TRUE) ELSE Throw, FALSE)

\* The try block of OnePasswordProvider.getCredential: execSync throws on a
\* non-zero exit, the output is trimmed otherwise.
opRead(reference, outcome) ==
    IF outcome.exit # 0 THEN Throw ELSE Return(Trim(outcome.stdout))

\* reference.match(/^bw:\/\/([^/]+)\/(.+)$/): the position of the slash
\* between item name and field name, 0 when the reference does not match.
bwMatch(reference) ==
    IF ~StartsWith(reference, "bw://") THEN 0
    ELSE LET j == FindFrom(reference, 6, "/")
         IN IF j > 6 /\ j < Len(reference) THEN j ELSE 0

\* Array.prototype.find on item.fields, then field.value.
RECURSIVE bwFindField(_, _)
bwFindField(fields, fieldName) ==
    IF fields = <<>> THEN Return(Undefined)
    ELSE IF Head(fields).name = fieldName THEN Return(Head(fields).value)
    ELSE bwFindField(Tail(fields), fieldName)

\* The try block of BitwardenProvider.getCredential: a reference that does
\* not match and a field that is not found return null; execSync throws on a
\* non-zero exit, JSON.parse on output that is not JSON, item.login on an
\* item that is null.
bwGet(reference, outcome) ==
    LET j == bwMatch(reference)
        fieldName == SubSeq(reference, j + 1, Len(reference))
        item == outcome.item
    IN IF j = 0 THEN Return(Undefined)
       ELSE IF outcome.exit # 0 THEN Throw
       ELSE IF outcome.json = "unparsable" THEN Throw
       ELSE IF outcome.json = "null" THEN Throw
       ELSE IF fieldName = "username" /\ item.hasLogin /\ Truthy(item.username)
       THEN Return(item.username)
       ELSE IF fieldName = "password" /\ item.hasLogin /\ Truthy(item.password)
       THEN Return(item.password)
       ELSE IF item.hasFields THEN bwFindField(item.fields, fieldName)
       ELSE Return(Undefined)

\* process.env of the run.
Environment(variable) ==
    CASE variable = "RL_USER" -> "alice"
      [] variable = "RL_PASS" -> "s3cret"
      [] variable = "RL_EMPTY" -> ""
      [] OTHER -> Undefined

\* A slip in the backends: getCredential without its try and catch.
getCredential_NoCatch(name, reference, outcome) ==
    CASE name = "1password" -> opRead(reference, outcome)
      [] name = "bitwarden" -> bwGet(reference, outcome)
      [] name = "env" -> Return(IF Truthy(Environment(reference))
                                 THEN Environment(reference) ELSE Undefined)

\* getCredential of the backend registered under name: what the try block
\* gives, null (Undefined) when it throws; the env backend gives
\* process.env[reference] || null.
getCredential(name, reference, outcome) ==
    CASE name = "1password" -> Catch(opRead(reference, outcome), Undefined)
      [] name = "bitwarden" -> Catch(bwGet(reference, outcome), Undefined)
      [] name = "env" -> Return(IF Truthy(Environment(reference))
                                 THEN Environment(reference) ELSE Undefined)

\* CredentialManager.getProvider: the backend when it is registered and
\* available, null otherwise.
managerGetProvider(name, installed) ==
    name \in Registered /\ isAvailable(name, installed).value

\* listAvailableProviders: the names of the map, in the order they were
\* registered, whose backend answers isAvailable() with true.
listAvailableProviders(installed) ==
    SelectSeq(<<"1password", "bitwarden", "env">>,
              LAMBDA name : isAvailable(name, installed).value)

\* The backend methods resolveCredential has called when it returns or
\* throws: none for a plain string or an unregistered name, isAvailable,
\* and getCredential once the backend is available.
BackendCalls(parsed, installed) ==
    IF ~parsed.isRef \/ parsed.provider \notin Registered THEN <<>>
    ELSE IF ~isAvailable(parsed.provider, installed).value THEN <<"isAvailable">>
    ELSE <<"isAvailable", "getCredential">>

\* What a backend may answer: isAvailable(), and getCredential(reference)
\* (Undefined for null).  The env backend is always available.
BackendAnswers(parsed, secret) ==
    {[available |-> TRUE, credential |-> secret],
     [available |-> TRUE, credential |-> Undefined]}
    \cup (IF parsed.provider = "env" THEN {}
          ELSE {[available |-> FALSE, credential |-> Undefined]})

\* A slip in resolveCredential: a pointer the backend does not hold is
\* reported as the backend not being available.
resolveCredential_OneError(parsed, answer) ==
    IF ~parsed.isRef
    THEN [threw |-> FALSE, message |-> Undefined, value |-> parsed.reference]
    ELSE IF ~answer.available \/ ~Truthy(answer.credential)
    THEN [threw |-> TRUE, value |-> Undefined,
          message |-> "Credential provider '" \o parsed.provider \o "' not available"]
    ELSE [threw |-> FALSE, message |-> Undefined, value |-> answer.credential]

\* resolveCredential, given the backend's answer.
resolveCredential(parsed, answer) ==
    IF ~parsed.isRef
    THEN [threw |-> FALSE, message |-> Undefined, value |-> parsed.reference]
    ELSE IF ~answer.available
    THEN [threw |-> TRUE, value |-> Undefined,
          message |-> "Credential provider '" \o parsed.provider \o "' not available"]
    ELSE IF ~Truthy(answer.credential)
    THEN [threw |-> TRUE, value |-> Undefined,
          message |-> "Failed to resolve credential: " \o parsed.reference]
    ELSE [threw |-> FALSE, message |-> Undefined, value |-> answer.credential]

\* resolveCredential(value) with the backend of the machine: outcomeOf gives
\* what the subprocess of each backend does.
resolveWith(value, installed, outcomeOf) ==
    LET available == value.isRef /\ managerGetProvider(value.provider, installed)
        credential == IF available
                      THEN getCredential(value.provider, value.reference,
                                         outcomeOf[value.provider]).value
                      ELSE Undefined
    IN resolveCredential(value, [available |-> available, credential |-> credential])

\* The loop of resolveCredentials from entry k of Object.entries: an entry
\* whose value is falsy is passed over, the first entry that fails to
\* resolve rejects the call with the error of resolveCredential.
RECURSIVE resolveCredentialsFrom(_, _, _, _, _)
resolveCredentialsFrom(entries, k, resolved, installed, outcomeOf) ==
    IF k > Len(entries)
    THEN [threw |-> FALSE, message |-> Undefined, resolved |-> resolved]
    ELSE LET key == entries[k].key
             value == entries[k].value
         IN IF ~value.isRef /\ ~Truthy(value.reference)
            THEN resolveCredentialsFrom(entries, k + 1, resolved, installed, outcomeOf)
            ELSE LET r == resolveWith(value, installed, outcomeOf)
                 IN IF r.threw
                    THEN [threw |-> TRUE, message |-> r.message, resolved |-> <<>>]
                    ELSE resolveCredentialsFrom(entries, k + 1,
                             Append(resolved, [key |-> key, value |-> r.value]),
                             installed, outcomeOf)

resolveCredentials(entries, installed, outcomeOf) ==
    resolveCredentialsFrom(entries, 1, <<>>, installed, outcomeOf)

(***************************************************************************)
(* SyncResult values, as the two sync loops build them.                    *)
(***************************************************************************)
AuthFailedResult(p) ==
    [provider |-> displayName(p.name), success |-> FALSE, articlesAdded |-> 0,
     error |-> "Authentication failed"]

\* A slip in the catch block: the exception's message is dropped.
ErrorResult_NoMessage(p, message) ==
    [provider |-> displayName(p.name), success |-> FALSE, articlesAdded |-> 0,
     error |-> "Authentication failed"]

\* The catch block of the loop body: error is error.message.
ErrorResult(p, message) ==
    [provider |-> displayName(p.name), success |-> FALSE, articlesAdded |-> 0,
     error |-> message]

\* A slip in the loop body: a batch counts as one article.
SuccessResult_CountsBatch(p, articles) ==
    [provider |-> displayName(p.name), success |-> TRUE,
     articlesAdded |-> IF Len(articles) > 0 THEN 1 ELSE 0, error |-> Undefined]

\* The result pushed after fetchArticles returned (lines 410-414).
SuccessResult(p, articles) ==
    [provider |-> displayName(p.name), success |-> TRUE,
     articlesAdded |-> Len(articles), error |-> Undefined]

(***************************************************************************)
(* The headless CLI: main of cli.ts from the loaded settings on.           *)
(***************************************************************************)
NoExit == -1

Keys == <<"username", "password">>

\* The credentials a settings document may give a provider: none, plain
\* values, or references to one of the three backends.
CredentialStyles ==
    {[username |-> Undefined, password |-> Undefined],
     [username |-> "alice", password |-> "s3cret"],
     [username |-> "env://RL_USER", password |-> "env://RL_PASS"],
     [username |-> "op://Private/Wired/username",
      password |-> "op://Private/Wired/password"],
     [username |-> "bw://wired-login/username",
      password |-> "bw://wired-login/password"]}

\* The secret a backend holds for a key.
SecretOf(key) == IF key = "username" THEN "alice" ELSE "s3cret"

\* settings.providers of a document that enables the identifiers en with the
\* credentials style[n], holds dis disabled, and misses the others.
MakeProviders(en, dis, style) ==
    [n \in Names |->
        IF n \in en THEN [present |-> TRUE, enabled |-> TRUE,
                          credentials |-> style[n], lastSync |-> 0]
        ELSE IF n \in dis THEN [NoConfig EXCEPT !.present = TRUE]
        ELSE NoConfig]

\* The template of a settings document: the title on a line of its own.
Templates == {"{{title}}\n"}

\* The vault path given to the run and what is found there: no path, a
\* directory without .obsidian, a vault, a vault that is a git repository.
Vaults ==
    {[configured |-> FALSE, valid |-> FALSE, git |-> FALSE],
     [configured |-> TRUE, valid |-> FALSE, git |-> FALSE],
     [configured |-> TRUE, valid |-> TRUE, git |-> FALSE],
     [configured |-> TRUE, valid |-> TRUE, git |-> TRUE]}

CliIdle ==
    /\ cliPc = "idle"
    /\ vault = [configured |-> FALSE, valid |-> FALSE, git |-> FALSE]
    /\ useGitSync = FALSE
    /\ cliProviders = <<>>
    /\ cliIdx = 0
    /\ cliResults = <<>>
    /\ allArticles = <<>>
    /\ cliExit = NoExit
    /\ cliEvents = <<>>
    /\ git = [head |-> Absent, ahead |-> 0]

PluginIdle ==
    /\ plugin = [stage |-> "none", syncInterval |-> 0, timers |-> {}, nextTimer |-> 1]
    /\ runs = <<>>
    /\ now = 0

RegistryIdle == registry = [document |-> <<>>, last |-> [call |-> "none"]]

ManagerIdle ==
    credManager = [installed |-> {}, signedIn |-> FALSE, last |-> [call |-> "none"]]

RenderIdle == rendering = [template |-> <<>>, article |-> <<>>, out |-> Undefined]

ProviderIdle == browserProvider = [provider |-> NullProvider, calls |-> <<>>]

FileIdle ==
    /\ fDirect = Absent
    /\ fVault = Absent
    /\ fNote = Absent
    /\ fileLog = <<>>
    /\ filePrev = [direct |-> Absent, vault |-> Absent, note |-> Absent]

\* The identifiers a settings document of the model may enable: at most
\* MaxEnabled of the first MaxEnabled + 1 of the catalog.
EnabledSets ==
    {en \in SUBSET {Catalog[k] : k \in 1..Len(Catalog)} :
        /\ Cardinality(en) <= MaxEnabled
        /\ \A k \in 1..Len(Catalog) : Catalog[k] \in en => k <= MaxEnabled + 1}

\* What the run is given besides the providers: the vault and git sync, the
\* output file, the append mode and what the output target holds.
CliSetups ==
    {[vault |-> v, gitSync |-> g, out |-> o, append |-> a, prior |-> f] :
        v \in Vaults, g \in BOOLEAN, o \in {"out.md", "-"}, a \in BOOLEAN,
        f \in {Absent, File("old"), File("A1\n")}}

\* The setups that differ in what main does with them: git sync is asked
\* for in a git vault, replace mode meets an existing target, and a run to
\* stdout, in an invalid vault or without git sync in a git vault is taken
\* once; the target that already holds what one article renders to is
\* replaced under git sync.
CliSetupsOfModel ==
    {c \in CliSetups :
        /\ c.prior = File("A1\n") => c.gitSync /\ ~c.append
        /\ c.gitSync => c.vault.git
        /\ ~c.append => c.prior.exists
        /\ c.out = "-" => ~c.vault.configured /\ c.append /\ ~c.prior.exists
        /\ (c.vault.configured /\ ~c.vault.valid) => c.append /\ ~c.prior.exists
        /\ (c.vault.git /\ ~c.gitSync) => c.append /\ c.prior.exists}

\* The identifiers a document holds disabled: those before the last enabled
\* one that it does not enable; the identifiers after it are missing.
DisabledOf(en) ==
    {Catalog[k] : k \in {j \in 1..Len(Catalog) :
                            /\ Catalog[j] \notin en
                            /\ \E i \in (j + 1)..Len(Catalog) : Catalog[i] \in en}}

\* The state of main when it reads its configuration (line 261): the
\* settings, the vault and the git option are what the document and the
\* options ask for.  A template that does not end in a line break is
\* taken with the run to standard output.
CliInit ==
    /\ cliPc = "load"
    /\ \E c \in CliSetupsOfModel, en \in EnabledSets,
          creds \in CredentialStyles, template \in Templates \cup {"{{title}}"} :
         /\ template \in Templates \/ c.out = "-"
         /\ settings = [outputFile |-> c.out,
                        providers |-> MakeProviders(en, DisabledOf(en),
                                                    [n \in en |-> creds]),
                        syncInterval |-> 0,
                        appendMode |-> c.append,
                        template |-> template]
         /\ vault = c.vault
         /\ useGitSync = c.gitSync
         /\ fDirect = (IF c.vault.configured THEN Absent ELSE c.prior)
         /\ fVault = (IF c.vault.configured THEN c.prior ELSE Absent)
         /\ git = [head |-> (IF c.vault.git THEN c.prior ELSE Absent), ahead |-> 0]
    /\ fNote = Absent
    /\ fileLog = <<>>
    /\ filePrev = [direct |-> Absent, vault |-> Absent, note |-> Absent]
    /\ cliProviders = <<>>
    /\ cliIdx = 0
    /\ cliResults = <<>>
    /\ allArticles = <<>>
    /\ cliExit = NoExit
    /\ cliEvents = <<>>
    /\ PluginIdle
    /\ RegistryIdle
    /\ ManagerIdle
    /\ RenderIdle
    /\ ProviderIdle

Event(ev, who) == [ev |-> ev, who |-> who]

\* main().catch: the rejection is printed and the process exits with 1.
CliFatal(message) ==
    /\ cliPc' = "exit"
    /\ cliExit' = 1
    /\ cliEvents' = Append(cliEvents, Event("fatal", message))

\* Lines 265-280: the document is read with JSON.parse, which throws a
\* SyntaxError on a text that is not JSON; main().catch ends the process.
CliLoadConfig ==
    /\ cliPc = "load"
    /\ \E parses \in BOOLEAN :
         IF parses
         THEN /\ cliPc' = "resolve"
              /\ UNCHANGED <<cliExit, cliEvents>>
         ELSE /\ cliPc' = "exit"
              /\ cliExit' = 1
              /\ cliEvents' = cliEvents \o
                     <<Event("parseThrows", "Unexpected token in JSON"),
                       Event("fatal", "Unexpected token in JSON")>>
    /\ UNCHANGED <<fileVars, settings, vault, useGitSync, cliProviders, cliIdx,
                   cliResults, allArticles, git, pluginVars>>
    /\ UNCHANGED registry
    /\ UNCHANGED credManager
    /\ UNCHANGED rendering
    /\ UNCHANGED browserProvider

\* The credentials of the enabled providers in the order of the loop of
\* lines 318-333: position t is key Keys[..] of provider Catalog[..].
CredStepName(t) == Catalog[(t + 1) \div 2]

CredStepKey(t) == Keys[((t - 1) % 2) + 1]

CredSteps(providers) ==
    {t \in 1..(2 * Len(Catalog)) :
        /\ providers[CredStepName(t)].present
        /\ providers[CredStepName(t)].enabled
        /\ providers[CredStepName(t)].credentials[CredStepKey(t)] # Undefined}

\* What the backend of a reference may answer so that resolveCredential
\* throws: it is not available, or it holds nothing for the reference.
FailingAnswers(parsed) ==
    {a \in BackendAnswers(parsed, "") : ~a.available \/ ~Truthy(a.credential)}

\* Lines 315-333: every credential of every enabled provider is parsed and
\* resolved; the first one that fails to resolve rejects main.
CliResolveCredentials ==
    /\ cliPc = "resolve"
    /\ LET steps == CredSteps(settings.providers)
           value(t) == settings.providers[CredStepName(t)].credentials[CredStepKey(t)]
           parsed(t) == parseReference(value(t))
           found(t) == resolveCredential(parsed(t),
                          [available |-> TRUE, credential |-> SecretOf(CredStepKey(t))])
           resolvedCreds(n) ==
               [k \in {"username", "password"} |->
                   LET t == CHOOSE u \in 1..(2 * Len(Catalog)) :
                               CredStepName(u) = n /\ CredStepKey(u) = k
                   IN IF t \in steps THEN found(t).value ELSE Undefined]
       IN \/ \E t \in steps :
               /\ parsed(t).isRef
               /\ \E answer \in FailingAnswers(parsed(t)) :
                    CliFatal(resolveCredential(parsed(t), answer).message)
               /\ UNCHANGED settings
          \/ /\ settings' =
                  [settings EXCEPT !.providers =
                      [n \in Names |->
                          IF settings.providers[n].present /\ settings.providers[n].enabled
                          THEN [settings.providers[n] EXCEPT !.credentials = resolvedCreds(n)]
                          ELSE settings.providers[n]]]
             /\ cliPc' = "vault"
             /\ cliEvents' = Append(cliEvents, Event("resolved", ""))
             /\ UNCHANGED cliExit
    /\ UNCHANGED <<fileVars, vault, useGitSync, cliProviders, cliIdx, cliResults,
                   allArticles, git, pluginVars>>
    /\ UNCHANGED registry
    /\ UNCHANGED credManager
    /\ UNCHANGED rendering
    /\ UNCHANGED browserProvider

\* A slip in main: a pull that fails ends the run.
CliInitVault_PullFatal ==
    /\ cliPc = "vault"
    /\ IF vault.configured /\ ~vault.valid
       THEN /\ cliPc' = "exit"
            /\ cliExit' = 1
            /\ cliEvents' = Append(cliEvents, Event("invalidVault", ""))
       ELSE IF vault.configured /\ useGitSync /\ vault.git
       THEN \/ /\ cliPc' = "registry"
               /\ cliEvents' = Append(cliEvents, Event("gitPull", TRUE))
               /\ UNCHANGED cliExit
            \/ /\ cliPc' = "exit"
               /\ cliExit' = 1
               /\ cliEvents' = Append(cliEvents, Event("gitPull", FALSE))
       ELSE /\ cliPc' = "registry"
            /\ UNCHANGED <<cliExit, cliEvents>>
    /\ UNCHANGED <<fileVars, settings, vault, useGitSync, cliProviders, cliIdx,
                   cliResults, allArticles, git, pluginVars>>
    /\ UNCHANGED registry
    /\ UNCHANGED credManager
    /\ UNCHANGED rendering
    /\ UNCHANGED browserProvider

\* A slip in main: the run goes on in a vault that is not valid.
CliInitVault_IgnoreInvalid ==
    /\ cliPc = "vault"
    /\ cliPc' = "registry"
    /\ UNCHANGED cliExit
    /\ IF vault.configured /\ ~vault.valid
       THEN cliEvents' = Append(cliEvents, Event("invalidVault", ""))
       ELSE IF vault.configured /\ useGitSync /\ vault.git
       THEN \E pulled \in BOOLEAN :
              cliEvents' = Append(cliEvents, Event("gitPull", pulled))
       ELSE UNCHANGED cliEvents
    /\ UNCHANGED <<fileVars, settings, vault, useGitSync, cliProviders, cliIdx,
                   cliResults, allArticles, git, pluginVars>>
    /\ UNCHANGED registry
    /\ UNCHANGED credManager
    /\ UNCHANGED rendering
    /\ UNCHANGED browserProvider

\* Lines 344-371: the vault is checked and, with git sync, pulled.
CliInitVault ==
    /\ cliPc = "vault"
    /\ IF vault.configured /\ ~vault.valid
       THEN /\ cliPc' = "exit"
            /\ cliExit' = 1
            /\ cliEvents' = Append(cliEvents, Event("invalidVault", ""))
       ELSE /\ cliPc' = "registry"
            /\ UNCHANGED cliExit
            /\ IF vault.configured /\ useGitSync /\ vault.git
               THEN \E pulled \in BOOLEAN :
                      cliEvents' = Append(cliEvents, Event("gitPull", pulled))
               ELSE UNCHANGED cliEvents
    /\ UNCHANGED <<fileVars, settings, vault, useGitSync, cliProviders, cliIdx,
                   cliResults, allArticles, git, pluginVars>>
    /\ UNCHANGED registry
    /\ UNCHANGED credManager
    /\ UNCHANGED rendering
    /\ UNCHANGED browserProvider

\* Lines 373-379: the enabled providers are instantiated.
CliGetProviders ==
    /\ cliPc = "registry"
    /\ cliProviders' = getEnabledProviders(settings.providers)
    /\ IF Len(cliProviders') = 0
       THEN /\ cliPc' = "exit"
            /\ cliExit' = 1
            /\ cliIdx' = 0
            /\ cliEvents' = Append(cliEvents, Event("noProviders", ""))
       ELSE /\ cliPc' = "auth"
            /\ cliIdx' = 1
            /\ UNCHANGED <<cliExit, cliEvents>>
    /\ UNCHANGED <<fileVars, settings, vault, useGitSync, cliResults, allArticles, git,
                   pluginVars>>
    /\ UNCHANGED registry
    /\ UNCHANGED credManager
    /\ UNCHANGED rendering
    /\ UNCHANGED browserProvider

\* A slip in the loop: a provider whose result is a failure is tried again.
CliAdvance_RetryFailed ==
    IF ~cliResults'[Len(cliResults')].success
    THEN cliIdx' = cliIdx /\ cliPc' = "auth"
    ELSE /\ cliIdx' = cliIdx + 1
         /\ cliPc' = IF cliIdx < Len(cliProviders) THEN "auth" ELSE "save"

\* The loop goes to the next provider, or leaves for the save.
CliAdvance ==
    /\ cliIdx' = cliIdx + 1
    /\ cliPc' = IF cliIdx < Len(cliProviders) THEN "auth" ELSE "save"

\* A slip in the loop body: the continue after a failed authentication is
\* missing, so fetchArticles is called all the same.
CliAuthenticate_NoContinue ==
    /\ cliPc = "auth"
    /\ \E outcome \in AuthOutcomes :
         LET r == authenticate(cliProviders[cliIdx], outcome)
         IN /\ cliProviders' = [cliProviders EXCEPT ![cliIdx] = r.provider]
            /\ cliEvents' = cliEvents \o
                   (IF r.ret THEN <<Event("authenticate", cliIdx)>>
                    ELSE <<Event("authenticate", cliIdx),
                           Event("notAuthenticated", cliIdx)>>)
            /\ cliResults' = IF r.ret THEN cliResults
                             ELSE Append(cliResults, AuthFailedResult(r.provider))
            /\ cliPc' = "fetch"
            /\ UNCHANGED cliIdx
    /\ UNCHANGED <<fileVars, settings, vault, useGitSync, allArticles, cliExit, git,
                   pluginVars>>
    /\ UNCHANGED registry
    /\ UNCHANGED credManager
    /\ UNCHANGED rendering
    /\ UNCHANGED browserProvider

\* A slip in the loop body: fetchArticles of an authenticated provider is
\* not awaited, the loop goes to its next provider at once.
CliAuthenticate_FetchNotAwaited ==
    /\ cliPc = "auth"
    /\ \E outcome \in AuthOutcomes :
         LET r == authenticate(cliProviders[cliIdx], outcome)
         IN /\ cliProviders' = [cliProviders EXCEPT ![cliIdx] = r.provider]
            /\ cliEvents' = cliEvents \o
                   (IF r.ret THEN <<Event("authenticate", cliIdx)>>
                    ELSE <<Event("authenticate", cliIdx),
                           Event("notAuthenticated", cliIdx)>>)
            /\ cliResults' = IF r.ret THEN cliResults
                             ELSE Append(cliResults, AuthFailedResult(r.provider))
            /\ CliAdvance
    /\ UNCHANGED <<fileVars, settings, vault, useGitSync, allArticles, cliExit, git,
                   pluginVars>>
    /\ UNCHANGED registry
    /\ UNCHANGED credManager
    /\ UNCHANGED rendering
    /\ UNCHANGED browserProvider

\* Lines 384-401: authenticate; false records the failure and continues.
CliAuthenticate ==
    /\ cliPc = "auth"
    /\ \E outcome \in AuthOutcomes :
         LET r == authenticate(cliProviders[cliIdx], outcome)
         IN /\ cliProviders' = [cliProviders EXCEPT ![cliIdx] = r.provider]
            /\ cliEvents' = cliEvents \o
                   (IF r.ret THEN <<Event("authenticate", cliIdx)>>
                    ELSE <<Event("authenticate", cliIdx),
                           Event("notAuthenticated", cliIdx)>>)
            /\ IF ~r.ret
               THEN /\ cliResults' = Append(cliResults, AuthFailedResult(r.provider))
                    /\ CliAdvance
               ELSE /\ cliPc' = "fetch"
                    /\ UNCHANGED <<cliResults, cliIdx>>
    /\ UNCHANGED <<fileVars, settings, vault, useGitSync, allArticles, cliExit, git,
                   pluginVars>>
    /\ UNCHANGED registry
    /\ UNCHANGED credManager
    /\ UNCHANGED rendering
    /\ UNCHANGED browserProvider

\* Lines 403-429: fetchArticles; its articles are collected, an exception
\* is caught and recorded.
CliFetch ==
    /\ cliPc = "fetch"
    /\ \E outcome \in FetchOutcomes(cliProviders[cliIdx].name) :
         LET r == fetchArticles(cliProviders[cliIdx], outcome)
         IN /\ cliProviders' = [cliProviders EXCEPT ![cliIdx] = r.provider]
            /\ cliEvents' = cliEvents \o
                   (IF r.threw THEN <<Event("fetchArticles", cliIdx),
                                      Event("throw", r.message)>>
                    ELSE <<Event("fetchArticles", cliIdx),
                           Event("fetched", Len(r.articles))>>)
            /\ IF r.threw
               THEN /\ cliResults' = Append(cliResults, ErrorResult(r.provider, r.message))
                    /\ UNCHANGED allArticles
               ELSE /\ allArticles' = allArticles \o r.articles
                    /\ cliResults' = Append(cliResults, SuccessResult(r.provider, r.articles))
    /\ CliAdvance
    /\ UNCHANGED <<fileVars, settings, vault, useGitSync, cliExit, git, pluginVars>>
    /\ UNCHANGED registry
    /\ UNCHANGED credManager
    /\ UNCHANGED rendering
    /\ UNCHANGED browserProvider

(***************************************************************************)
(* The git steps of ObsidianSyncManager (sync/obsidian-sync.ts).           *)
(***************************************************************************)
\* What gitCommit may meet: git add fails, git commit fails, other tracked
\* files of the working copy differ from HEAD, or the commands work on a
\* working copy that is clean but for the output file.  Whether the output
\* file differs from HEAD is read from the repository.
CommitOutcomes == {"addThrows", "commitThrows", "otherChanges", "works"}

\* The commit message of main.
CommitMessage(count) ==
    "chore: sync read-later articles (" \o ToString(count) \o " articles)"

\* A slip in gitCommit: true is returned when there is nothing to commit.
gitCommit_TrueWhenClean(g, message, path, file, outcome) ==
    LET changed == file # g.head \/ outcome = "otherChanges"
        add == [ev |-> "gitAdd", who |-> path]
        diff == [ev |-> "gitDiff", who |-> changed]
        failed == [ev |-> "gitError", who |-> "Git commit failed:"]
    IN IF outcome = "addThrows"
       THEN [git |-> g, ret |-> FALSE, events |-> <<add, failed>>]
       ELSE IF ~changed
       THEN [git |-> g, ret |-> TRUE, events |-> <<add, diff>>]
       ELSE IF outcome = "commitThrows" \/ file = g.head
       THEN [git |-> g, ret |-> FALSE, events |-> <<add, diff, failed>>]
       ELSE [git |-> [head |-> file, ahead |-> g.ahead + 1], ret |-> TRUE,
             events |-> <<add, diff, [ev |-> "gitCommit", who |-> message]>>]

\* gitCommit(message, [path]) in a git vault, the output file holding file:
\* git add of the path, git diff-index against HEAD, git commit.  False when
\* diff-index finds no change or a command fails; a commit of a working copy
\* whose staged file does not differ from HEAD fails.  events are the
\* commands run and what is logged.
gitCommit(g, message, path, file, outcome) ==
    LET changed == file # g.head \/ outcome = "otherChanges"
        add == [ev |-> "gitAdd", who |-> path]
        diff == [ev |-> "gitDiff", who |-> changed]
        failed == [ev |-> "gitError", who |-> "Git commit failed:"]
    IN IF outcome = "addThrows"
       THEN [git |-> g, ret |-> FALSE, events |-> <<add, failed>>]
       ELSE IF ~changed
       THEN [git |-> g, ret |-> FALSE, events |-> <<add, diff>>]
       ELSE IF outcome = "commitThrows" \/ file = g.head
       THEN [git |-> g, ret |-> FALSE, events |-> <<add, diff, failed>>]
       ELSE [git |-> [head |-> file, ahead |-> g.ahead + 1], ret |-> TRUE,
             events |-> <<add, diff, [ev |-> "gitCommit", who |-> message]>>]

\* A slip in gitPush: a push that fails takes the local commit back.
gitPush_UndoCommit(g, works) ==
    IF works THEN [git |-> [g EXCEPT !.ahead = 0], ret |-> TRUE]
    ELSE [git |-> [head |-> Absent, ahead |-> 0], ret |-> FALSE]

\* gitPush() in a git vault: false when git push fails.
gitPush(g, works) ==
    IF works THEN [git |-> [g EXCEPT !.ahead = 0], ret |-> TRUE]
    ELSE [git |-> g, ret |-> FALSE]

WriteError == "EACCES: permission denied"

\* A slip in main: the articles are written without the check that there
\* are any.
CliSave_NoEmptyCheck ==
    /\ cliPc = "save"
    /\ LET formatted == FormatAll(allArticles, settings.template)
            IN IF vault.configured
               THEN \/ /\ CliFatal(WriteError)
                       /\ UNCHANGED <<fDirect, fVault, git>>
                    \/ /\ fVault' = IF settings.appendMode
                                    THEN appendFile(fVault, formatted)
                                    ELSE writeFile(fVault, formatted)
                       /\ cliPc' = "summary"
                       /\ UNCHANGED <<fDirect, cliExit>>
                       /\ IF useGitSync /\ vault.git
                          THEN \E outcome \in CommitOutcomes, works \in BOOLEAN :
                                 LET c == gitCommit(git, CommitMessage(Len(allArticles)),
                                                    settings.outputFile, fVault',
                                                    outcome)
                                     psh == gitPush(c.git, works)
                                 IN IF c.ret
                                    THEN /\ git' = psh.git
                                         /\ cliEvents' = cliEvents \o
                                              <<Event("write", formatted),
                                                Event("triggerSync", "")>>
                                              \o c.events
                                              \o <<Event("gitPush", psh.ret),
                                                    Event("complete", Len(allArticles))>>
                                    ELSE /\ git' = c.git
                                         /\ cliEvents' = cliEvents \o
                                              <<Event("write", formatted),
                                                Event("triggerSync", "")>>
                                              \o c.events
                                              \o <<Event("complete", Len(allArticles))>>
                          ELSE /\ UNCHANGED git
                               /\ cliEvents' = cliEvents \o
                                    <<Event("write", formatted), Event("triggerSync", ""),
                                      Event("complete", Len(allArticles))>>
               ELSE IF settings.outputFile = "-"
               THEN /\ cliPc' = "summary"
                    /\ cliEvents' = cliEvents \o
                           <<Event("stdout", formatted),
                             Event("complete", Len(allArticles))>>
                    /\ UNCHANGED <<fDirect, fVault, git, cliExit>>
               ELSE \/ /\ CliFatal(WriteError)
                       /\ UNCHANGED <<fDirect, fVault, git>>
                    \/ /\ fDirect' = CliWriteOutput(fDirect, formatted, settings.appendMode)
                       /\ cliPc' = "summary"
                       /\ cliEvents' = cliEvents \o
                              <<Event("write", formatted),
                                Event("complete", Len(allArticles))>>
                       /\ UNCHANGED <<fVault, git, cliExit>>
    /\ UNCHANGED <<fNote, fileLog, filePrev, settings, vault, useGitSync, cliProviders,
                   cliIdx, cliResults, allArticles, pluginVars>>
    /\ UNCHANGED registry
    /\ UNCHANGED credManager
    /\ UNCHANGED rendering
    /\ UNCHANGED browserProvider

\* Lines 431-481: the collected articles are formatted and written, through
\* the sync manager when a vault is given, else by saveArticles; a write that
\* throws rejects main.  The report of line 478 is logged as complete.
CliSave ==
    /\ cliPc = "save"
    /\ IF Len(allArticles) = 0
       THEN /\ cliPc' = "summary"
            /\ cliEvents' = Append(cliEvents, Event("noArticles", ""))
            /\ UNCHANGED <<fDirect, fVault, git, cliExit>>
       ELSE LET formatted == FormatAll(allArticles, settings.template)
            IN IF vault.configured
               THEN \/ /\ CliFatal(WriteError)
                       /\ UNCHANGED <<fDirect, fVault, git>>
                    \/ /\ fVault' = IF settings.appendMode
                                    THEN appendFile(fVault, formatted)
                                    ELSE writeFile(fVault, formatted)
                       /\ cliPc' = "summary"
                       /\ UNCHANGED <<fDirect, cliExit>>
                       /\ IF useGitSync /\ vault.git
                          THEN \E outcome \in CommitOutcomes, works \in BOOLEAN :
                                 LET c == gitCommit(git, CommitMessage(Len(allArticles)),
                                                    settings.outputFile, fVault',
                                                    outcome)
                                     psh == gitPush(c.git, works)
                                 IN IF c.ret
                                    THEN /\ git' = psh.git
                                         /\ cliEvents' = cliEvents \o
                                              <<Event("write", formatted),
                                                Event("triggerSync", "")>>
                                              \o c.events
                                              \o <<Event("gitPush", psh.ret),
                                                    Event("complete", Len(allArticles))>>
                                    ELSE /\ git' = c.git
                                         /\ cliEvents' = cliEvents \o
                                              <<Event("write", formatted),
                                                Event("triggerSync", "")>>
                                              \o c.events
                                              \o <<Event("complete", Len(allArticles))>>
                          ELSE /\ UNCHANGED git
                               /\ cliEvents' = cliEvents \o
                                    <<Event("write", formatted), Event("triggerSync", ""),
                                      Event("complete", Len(allArticles))>>
               ELSE IF settings.outputFile = "-"
               THEN /\ cliPc' = "summary"
                    /\ cliEvents' = cliEvents \o
                           <<Event("stdout", formatted),
                             Event("complete", Len(allArticles))>>
                    /\ UNCHANGED <<fDirect, fVault, git, cliExit>>
               ELSE \/ /\ CliFatal(WriteError)
                       /\ UNCHANGED <<fDirect, fVault, git>>
                    \/ /\ fDirect' = CliWriteOutput(fDirect, formatted, settings.appendMode)
                       /\ cliPc' = "summary"
                       /\ cliEvents' = cliEvents \o
                              <<Event("write", formatted),
                                Event("complete", Len(allArticles))>>
                       /\ UNCHANGED <<fVault, git, cliExit>>
    /\ UNCHANGED <<fNote, fileLog, filePrev, settings, vault, useGitSync, cliProviders,
                   cliIdx, cliResults, allArticles, pluginVars>>
    /\ UNCHANGED registry
    /\ UNCHANGED credManager
    /\ UNCHANGED rendering
    /\ UNCHANGED browserProvider

\* The number of failed results.
Failures(results) == Cardinality({k \in 1..Len(results) : ~results[k].success})

\* Lines 493-494: the exit status of a run that reaches its summary.
ExitStatus(results) == IF Failures(results) > 0 THEN 1 ELSE 0

\* Lines 483-494: the summary is printed and the exit status set.
CliSummary ==
    /\ cliPc = "summary"
    /\ cliPc' = "exit"
    /\ cliEvents' = Append(cliEvents, Event("summary", Len(cliResults)))
    /\ cliExit' = ExitStatus(cliResults)
    /\ UNCHANGED <<fileVars, settings, vault, useGitSync, cliProviders, cliIdx,
                   cliResults, allArticles, git, pluginVars>>
    /\ UNCHANGED registry
    /\ UNCHANGED credManager
    /\ UNCHANGED rendering
    /\ UNCHANGED browserProvider

CliNext ==
    \/ CliLoadConfig
    \/ CliResolveCredentials
    \/ CliInitVault
    \/ CliGetProviders
    \/ CliAuthenticate
    \/ CliFetch
    \/ CliSave
    \/ CliSummary

SpecCli == CliInit /\ [][CliNext]_vars

(***************************************************************************)
(* The plugin (main.ts): commands and the timer start syncAllProviders; an *)
(* invocation advances from one await to the next, and other invocations   *)
(* and handlers run in between.                                            *)
(***************************************************************************)
\* What the vault holds at settings.outputFile when it is a folder.
Folder == [exists |-> TRUE, content |-> Undefined]

IsFolder(f) == f.exists /\ f.content = Undefined

\* The values the settings tab may give the auto-sync interval (minutes).
SyncIntervals == {0, 5}

\* The identifiers the plugin's settings of the model may enable: the first
\* ones of the catalog, at most MaxEnabled.
PluginEnabledSets ==
    {{Catalog[k] : k \in 1..n} : n \in 0..MaxEnabled}

\* What the plugin starts from: the enabled providers, the append mode, the
\* saved interval and what the vault holds at settings.outputFile.
PluginSetups ==
    {[enabled |-> en, append |-> a, interval |-> v, prior |-> f] :
        en \in PluginEnabledSets, a \in BOOLEAN, v \in SyncIntervals,
        f \in {Absent, File("old"), Folder}}

\* The setups that differ in what the plugin does with them: a folder at
\* the note's path is met in append mode without a timer, and a settings
\* document that enables nothing is taken once per interval.
PluginSetupsOfModel ==
    {c \in PluginSetups :
        /\ IsFolder(c.prior) => c.append /\ c.interval = 0
        /\ c.enabled = {} => c.append /\ ~c.prior.exists}

\* The state after construction, before onload; the settings are those
\* loadSettings will find.
PluginInit ==
    /\ \E c \in PluginSetupsOfModel, template \in Templates :
       LET en == c.enabled
           append == c.append
           interval == c.interval
       IN
         /\ fNote = c.prior
         /\ settings = [outputFile |-> "ReadLater.md",
                     providers |-> MakeProviders(en, DisabledOf(en),
                                     [n \in en |-> [username |-> "alice",
                                                    password |-> "s3cret"]]),
                     syncInterval |-> interval,
                     appendMode |-> append,
                     template |-> template]
    /\ fDirect = Absent
    /\ fVault = Absent
    /\ fileLog = <<>>
    /\ filePrev = [direct |-> Absent, vault |-> Absent, note |-> Absent]
    /\ CliIdle
    /\ plugin = [stage |-> "constructed", syncInterval |-> 0, timers |-> {},
                 nextTimer |-> 1]
    /\ runs = <<>>
    /\ now = 0
    /\ RegistryIdle
    /\ ManagerIdle
    /\ RenderIdle
    /\ ProviderIdle

\* A slip in updateSyncInterval: the timer that runs is not cleared before
\* the new one is set.
updateSyncInterval_KeepOld(pl, st) ==
    IF st.syncInterval > 0
    THEN [pl EXCEPT !.syncInterval = pl.nextTimer,
                    !.timers = pl.timers \cup {pl.nextTimer},
                    !.nextTimer = pl.nextTimer + 1]
    ELSE IF pl.syncInterval # 0
    THEN [pl EXCEPT !.timers = pl.timers \ {pl.syncInterval}, !.syncInterval = 0]
    ELSE pl

\* updateSyncInterval (lines 64-76) on the plugin pl with the settings st.
updateSyncInterval(pl, st) ==
    LET cleared == IF pl.syncInterval # 0
                   THEN [pl EXCEPT !.timers = pl.timers \ {pl.syncInterval},
                                   !.syncInterval = 0]
                   ELSE pl
    IN IF st.syncInterval > 0
       THEN [cleared EXCEPT !.syncInterval = cleared.nextTimer,
                            !.timers = cleared.timers \cup {cleared.nextTimer},
                            !.nextTimer = cleared.nextTimer + 1]
       ELSE cleared

\* onunload (lines 49-54): the timer is cleared, the handle is kept.
onunload(pl) ==
    [pl EXCEPT !.timers = IF pl.syncInterval # 0
                          THEN pl.timers \ {pl.syncInterval}
                          ELSE pl.timers,
               !.stage = "unloaded"]

\* showSyncResults (lines 141-155): the notice of a finished run.
showSyncResults(results) ==
    [total |-> LET RECURSIVE Sum(_)
                   Sum(k) == IF k = 0 THEN 0
                             ELSE results[k].articlesAdded + Sum(k - 1)
               IN Sum(Len(results)),
     failures |-> Failures(results)]

NoNotice == [total |-> 0, failures |-> 0]

\* The loop of run r goes to its next provider, or shows the results.
RunAdvance(r) ==
    IF r.idx < Len(r.providers)
    THEN [r EXCEPT !.idx = r.idx + 1, !.pc = "auth"]
    ELSE [r EXCEPT !.idx = r.idx + 1, !.pc = "done",
                   !.notice = showSyncResults(r.results)]

\* The catch of lines 121-128 in run r, then the next iteration.
RunCatch(r, message) ==
    RunAdvance([r EXCEPT !.results =
                   Append(r.results, ErrorResult(r.providers[r.idx], message))])

\* Lines 78-91: syncAllProviders up to its first await.
StartRun(trigger) ==
    LET providers == getEnabledProviders(settings.providers)
        run == [pc |-> IF Len(providers) = 0 THEN "noProviders" ELSE "auth",
                trigger |-> trigger,
                providers |-> providers,
                idx |-> 1,
                results |-> <<>>,
                articles |-> <<>>,
                existing |-> "",
                events |-> <<>>,
                notice |-> NoNotice]
    IN /\ Len(runs) < MaxRuns
       /\ runs' = Append(runs, run)
       /\ now' = now + 1

\* onload (lines 11-47).
PluginOnload ==
    /\ plugin.stage = "constructed"
    /\ plugin' = updateSyncInterval([plugin EXCEPT !.stage = "loaded"], settings)
    /\ UNCHANGED <<fileVars, cliVars, runs, now>>
    /\ UNCHANGED registry
    /\ UNCHANGED credManager
    /\ UNCHANGED rendering
    /\ UNCHANGED browserProvider

\* onunload.
PluginOnunload ==
    /\ plugin.stage = "loaded"
    /\ plugin' = onunload(plugin)
    /\ UNCHANGED <<fileVars, cliVars, runs, now>>
    /\ UNCHANGED registry
    /\ UNCHANGED credManager
    /\ UNCHANGED rendering
    /\ UNCHANGED browserProvider

\* The ribbon icon or a command (lines 17-38).
PluginCommand ==
    /\ plugin.stage = "loaded"
    /\ StartRun("command")
    /\ UNCHANGED <<fileVars, cliVars, plugin>>
    /\ UNCHANGED registry
    /\ UNCHANGED credManager
    /\ UNCHANGED rendering
    /\ UNCHANGED browserProvider

\* A timer of window.setInterval fires (line 72).
PluginTimerTick ==
    /\ plugin.timers # {}
    /\ StartRun("timer")
    /\ UNCHANGED <<fileVars, cliVars, plugin>>
    /\ UNCHANGED registry
    /\ UNCHANGED credManager
    /\ UNCHANGED rendering
    /\ UNCHANGED browserProvider

\* The interval field of the settings tab (settings.ts lines 126-132):
\* the value is stored and saved, then updateSyncInterval runs; when
\* saveSettings rejects, it does not run.  bound caps the timers set.
SetSyncInterval(bound) ==
    /\ plugin.stage = "loaded"
    /\ \E v \in SyncIntervals, saved \in BOOLEAN :
         /\ v > 0 => plugin.nextTimer <= bound
         /\ settings' = [settings EXCEPT !.syncInterval = v]
         /\ plugin' = IF saved THEN updateSyncInterval(plugin, settings') ELSE plugin
    /\ UNCHANGED <<fileVars, vault, useGitSync, cliPc, cliProviders, cliIdx, cliResults,
                   allArticles, cliExit, cliEvents, git, runs, now>>
    /\ UNCHANGED registry
    /\ UNCHANGED credManager
    /\ UNCHANGED rendering
    /\ UNCHANGED browserProvider

\* The settings tab of the plugin while runs may go on.
PluginSetSyncInterval == SetSyncInterval(MaxIntervals)

\* The calls of authenticate that have resolved, over all runs.
RECURSIVE Lifecycles(_)
Lifecycles(k) ==
    IF k = 0 THEN 0
    ELSE Lifecycles(k - 1) +
         Cardinality({e \in 1..Len(runs[k].events) :
                         runs[k].events[e].ev = "authenticate"})

\* The runs that are between two awaits of their loop.
Running == {i \in 1..Len(runs) : runs[i].pc \notin {"done", "noProviders"}}

RunEvent(r, ev) == [r EXCEPT !.events = Append(r.events, Event(ev, r.idx))]

\* Lines 108-119 in run r: the result is pushed and lastSync is set; the
\* await of saveSettings is next.
RunPushSuccess(r) ==
    [r EXCEPT !.results = Append(r.results,
                                 SuccessResult(r.providers[r.idx], r.articles)),
              !.pc = "persist"]

SetLastSync(st, name, time) ==
    [st EXCEPT !.providers[name].lastSync = time]

\* saveArticles after the note is known to be there (lines 174-183): a
\* folder throws; else the read (append mode) or the modify is awaited.
RunOpenNote(r, f) ==
    IF IsFolder(f) THEN RunCatch(r, "ReadLater.md is not a file")
    ELSE [r EXCEPT !.pc = IF settings.appendMode THEN "read" ELSE "modify"]

\* Lines 93-103 of run i: authenticate resolves.
PluginAuthenticate(i) ==
    /\ runs[i].pc = "auth"
    /\ Lifecycles(Len(runs)) < MaxLifecycles
    /\ \E outcome \in AuthOutcomes :
         LET r == runs[i]
             a == authenticate(r.providers[r.idx], outcome)
             r1 == RunEvent([r EXCEPT !.providers[r.idx] = a.provider], "authenticate")
             r2 == RunEvent(r1, "notAuthenticated")
         IN runs' = [runs EXCEPT ![i] =
                        IF ~a.ret
                        THEN RunAdvance([r2 EXCEPT !.results =
                                 Append(r2.results, AuthFailedResult(a.provider))])
                        ELSE [r1 EXCEPT !.pc = "fetch"]]
    /\ UNCHANGED <<fileVars, cliVars, plugin, now>>
    /\ UNCHANGED registry
    /\ UNCHANGED credManager
    /\ UNCHANGED rendering
    /\ UNCHANGED browserProvider

\* Lines 105-106 and 157-172 of run i: fetchArticles resolves; saveArticles
\* returns at once for no articles, else it looks the note up.
PluginFetch(i) ==
    /\ runs[i].pc = "fetch"
    /\ \E outcome \in FetchOutcomes(runs[i].providers[runs[i].idx].name) :
         LET r == runs[i]
             f == fetchArticles(r.providers[r.idx], outcome)
             r0 == RunEvent([r EXCEPT !.providers[r.idx] = f.provider,
                                      !.articles = f.articles], "fetchArticles")
             r1 == IF f.threw THEN r0
                   ELSE [r0 EXCEPT !.events =
                            Append(r0.events, Event("fetched", Len(f.articles)))]
         IN IF f.threw
            THEN /\ runs' = [runs EXCEPT ![i] =
                               RunCatch([r1 EXCEPT !.events =
                                            Append(r1.events, Event("throw", f.message))],
                                        f.message)]
                 /\ UNCHANGED settings
            ELSE IF Len(f.articles) = 0
            THEN /\ runs' = [runs EXCEPT ![i] = RunPushSuccess(r1)]
                 /\ settings' = SetLastSync(settings, f.provider.name, now)
            ELSE /\ runs' = [runs EXCEPT ![i] =
                               IF ~fNote.exists THEN [r1 EXCEPT !.pc = "create"]
                               ELSE RunOpenNote(r1, fNote)]
                 /\ UNCHANGED settings
    /\ UNCHANGED <<fileVars, vault, useGitSync, cliPc, cliProviders, cliIdx, cliResults,
                   allArticles, cliExit, cliEvents, git, plugin, now>>
    /\ UNCHANGED registry
    /\ UNCHANGED credManager
    /\ UNCHANGED rendering
    /\ UNCHANGED browserProvider

\* Lines 166-176 of run i: vault.create resolves, or rejects because the
\* path is taken by now.
PluginCreate(i) ==
    /\ runs[i].pc = "create"
    /\ \/ /\ ~fNote.exists
          /\ fNote' = File("")
          /\ runs' = [runs EXCEPT ![i] =
                         RunOpenNote(RunEvent(runs[i], "create"), fNote')]
       \/ /\ fNote.exists
          /\ runs' = [runs EXCEPT ![i] = RunCatch(runs[i], "File already exists.")]
          /\ UNCHANGED fNote
    /\ UNCHANGED <<fDirect, fVault, fileLog, filePrev, cliVars, plugin, now>>
    /\ UNCHANGED registry
    /\ UNCHANGED credManager
    /\ UNCHANGED rendering
    /\ UNCHANGED browserProvider

\* Line 183 of run i: vault.read resolves with what the note holds.
PluginRead(i) ==
    /\ runs[i].pc = "read"
    /\ runs' = [runs EXCEPT ![i] = [runs[i] EXCEPT !.existing = fNote.content,
                                                   !.pc = "modify"]]
    /\ UNCHANGED <<fileVars, cliVars, plugin, now>>
    /\ UNCHANGED registry
    /\ UNCHANGED credManager
    /\ UNCHANGED rendering
    /\ UNCHANGED browserProvider

\* A slip in the loop body: lastSync is set before the articles are saved,
\* so a write that fails leaves it changed.
PluginModify_StampBeforeSave(i) ==
    /\ runs[i].pc = "modify"
    /\ LET r == runs[i]
           formattedArticles == FormatAll(r.articles, settings.template)
       IN /\ settings' = SetLastSync(settings, r.providers[r.idx].name, now)
          /\ \/ /\ fNote' = PluginWriteNote(r.existing, formattedArticles,
                                            settings.appendMode)
                /\ runs' = [runs EXCEPT ![i] = RunPushSuccess(RunEvent(r, "write"))]
                /\ filePrev' = [filePrev EXCEPT !.note = fNote]
             \/ /\ runs' = [runs EXCEPT ![i] = RunCatch(r, WriteError)]
                /\ UNCHANGED <<fNote, filePrev>>
    /\ UNCHANGED <<fDirect, fVault, fileLog, vault, useGitSync, cliPc,
                   cliProviders, cliIdx, cliResults, allArticles, cliExit, cliEvents,
                   git, plugin, now>>
    /\ UNCHANGED registry
    /\ UNCHANGED credManager
    /\ UNCHANGED rendering
    /\ UNCHANGED browserProvider

\* Lines 184-190 and 108-118 of run i: vault.modify resolves with the
\* content computed from what was read, or rejects.
PluginModify(i) ==
    /\ runs[i].pc = "modify"
    /\ LET r == runs[i]
           formattedArticles == FormatAll(r.articles, settings.template)
       IN \/ /\ fNote' = PluginWriteNote(r.existing, formattedArticles,
                                         settings.appendMode)
             /\ runs' = [runs EXCEPT ![i] = RunPushSuccess(RunEvent(r, "write"))]
             /\ settings' = SetLastSync(settings, r.providers[r.idx].name, now)
             /\ filePrev' = [filePrev EXCEPT !.note = fNote]
          \/ /\ runs' = [runs EXCEPT ![i] = RunCatch(r, WriteError)]
             /\ UNCHANGED <<fNote, settings, filePrev>>
    /\ UNCHANGED <<fDirect, fVault, fileLog, vault, useGitSync, cliPc,
                   cliProviders, cliIdx, cliResults, allArticles, cliExit, cliEvents,
                   git, plugin, now>>
    /\ UNCHANGED registry
    /\ UNCHANGED credManager
    /\ UNCHANGED rendering
    /\ UNCHANGED browserProvider

\* Lines 118-128 of run i: saveSettings resolves, or rejects into the catch.
PluginPersist(i) ==
    /\ runs[i].pc = "persist"
    /\ \/ runs' = [runs EXCEPT ![i] = RunAdvance(runs[i])]
       \/ runs' = [runs EXCEPT ![i] = RunCatch(runs[i], "Failed to save plugin data")]
    /\ UNCHANGED <<fileVars, cliVars, plugin, now>>
    /\ UNCHANGED registry
    /\ UNCHANGED credManager
    /\ UNCHANGED rendering
    /\ UNCHANGED browserProvider

PluginNext ==
    \/ PluginOnload
    \/ PluginOnunload
    \/ PluginCommand
    \/ PluginTimerTick
    \/ PluginSetSyncInterval
    \/ \E i \in 1..Len(runs) : PluginAuthenticate(i)
    \/ \E i \in 1..Len(runs) : PluginFetch(i)
    \/ \E i \in 1..Len(runs) : PluginCreate(i)
    \/ \E i \in 1..Len(runs) : PluginRead(i)
    \/ \E i \in 1..Len(runs) : PluginModify(i)
    \/ \E i \in 1..Len(runs) : PluginPersist(i)

SpecPlugin == PluginInit /\ [][PluginNext]_vars

(***************************************************************************)
(* The timer of the plugin on its own: onload, the interval field of the   *)
(* settings tab and onunload, no run being started.                        *)
(***************************************************************************)
TimerSetSyncInterval == SetSyncInterval(MaxTimers)

SpecTimer ==
    PluginInit /\ [][PluginOnload \/ TimerSetSyncInterval \/ PluginOnunload]_vars

(***************************************************************************)
(* The three writers of the output target side by side: cli.ts             *)
(* saveArticles (direct file), ObsidianSyncManager (working copy) and the  *)
(* plugin's saveArticles (note), given the same operations.                *)
(***************************************************************************)
Contents == {"", "A", "B", "C"}

\* What the target is before the first operation: absent, present and
\* empty, present with content.
PriorTargets == {Absent, File(""), File("A")}

FileInit ==
    /\ \E f \in PriorTargets : fDirect = f /\ fVault = f /\ fNote = f
    /\ fileLog = <<>>
    /\ filePrev = [direct |-> fDirect, vault |-> fVault, note |-> fNote]
    /\ settings = [outputFile |-> "out.md", providers |-> [n \in Names |-> NoConfig],
                   syncInterval |-> 0, appendMode |-> TRUE, template |-> ""]
    /\ CliIdle
    /\ PluginIdle
    /\ RegistryIdle
    /\ ManagerIdle
    /\ RenderIdle
    /\ ProviderIdle

\* A write in replace mode of each writer.
FileReplace ==
    /\ Len(fileLog) < MaxFileOps
    /\ \E c \in Contents :
         /\ fDirect' = CliWriteOutput(fDirect, c, FALSE)
         /\ fVault' = writeFile(fVault, c)
         /\ fNote' = PluginSaveNote(fNote, c, FALSE)
         /\ fileLog' = Append(fileLog, [op |-> "replace", content |-> c])
    /\ filePrev' = [direct |-> fDirect, vault |-> fVault, note |-> fNote]
    /\ UNCHANGED <<cliVars, pluginVars>>
    /\ UNCHANGED registry
    /\ UNCHANGED credManager
    /\ UNCHANGED rendering
    /\ UNCHANGED browserProvider

\* A write in append mode of each writer.
FileAppend ==
    /\ Len(fileLog) < MaxFileOps
    /\ \E c \in Contents :
         /\ fDirect' = CliWriteOutput(fDirect, c, TRUE)
         /\ fVault' = appendFile(fVault, c)
         /\ fNote' = PluginSaveNote(fNote, c, TRUE)
         /\ fileLog' = Append(fileLog, [op |-> "append", content |-> c])
    /\ filePrev' = [direct |-> fDirect, vault |-> fVault, note |-> fNote]
    /\ UNCHANGED <<cliVars, pluginVars>>
    /\ UNCHANGED registry
    /\ UNCHANGED credManager
    /\ UNCHANGED rendering
    /\ UNCHANGED browserProvider

FileNext == FileReplace \/ FileAppend

SpecFile == FileInit /\ [][FileNext]_vars

(***************************************************************************)
(* A ProviderRegistry constructed with a settings document and asked for   *)
(* its providers (providers/registry.ts, registry.test.ts).                *)
(***************************************************************************)
\* An identifier no provider is registered under.
Unregistered == "nonexistent"

\* The keys a settings document of the model may hold under providers.
DocKeys == Names \cup {Unregistered}

\* The documents: up to MaxDocKeys entries under providers, in any key
\* order, each enabled or not.
Documents ==
    UNION {{d \in [1..n -> [key : DocKeys, enabled : BOOLEAN]] :
               \A a, b \in 1..n : d[a].key = d[b].key => a = b} :
           n \in 0..MaxDocKeys}

\* this.settings.providers[name]: the entry under the key, wherever it is
\* in the document, undefined when there is none.
ConfigOf(document, name) ==
    IF \E k \in 1..Len(document) : document[k].key = name
    THEN LET k == CHOOSE j \in 1..Len(document) : document[j].key = name
         IN [present |-> TRUE, enabled |-> document[k].enabled,
             credentials |-> [username |-> "alice", password |-> "s3cret"],
             lastSync |-> 0]
    ELSE NoConfig

ProvidersOf(document) == [n \in DocKeys |-> ConfigOf(document, n)]

\* new ProviderRegistry(settings).
RegistryInit ==
    /\ \E d \in Documents : registry = [document |-> d, last |-> [call |-> "none"]]
    /\ settings = [outputFile |-> "ReadLater.md",
                   providers |-> [n \in Names |-> ConfigOf(registry.document, n)],
                   syncInterval |-> 0, appendMode |-> TRUE, template |-> ""]
    /\ CliIdle
    /\ PluginIdle
    /\ FileIdle
    /\ ManagerIdle
    /\ RenderIdle
    /\ ProviderIdle

RegistryGetEnabledProviders ==
    /\ registry' = [registry EXCEPT !.last =
                        [call |-> "getEnabledProviders",
                         value |-> getEnabledProviders(ProvidersOf(registry.document))]]
    /\ UNCHANGED <<fileVars, cliVars, pluginVars>>
    /\ UNCHANGED credManager
    /\ UNCHANGED rendering
    /\ UNCHANGED browserProvider

RegistryGetProvider ==
    /\ \E name \in DocKeys :
          registry' = [registry EXCEPT !.last =
                          [call |-> "getProvider", name |-> name,
                           value |-> getProvider(ProvidersOf(registry.document), name)]]
    /\ UNCHANGED <<fileVars, cliVars, pluginVars>>
    /\ UNCHANGED credManager
    /\ UNCHANGED rendering
    /\ UNCHANGED browserProvider

RegistryGetAllProviderNames ==
    /\ registry' = [registry EXCEPT !.last =
                        [call |-> "getAllProviderNames", value |-> getAllProviderNames]]
    /\ UNCHANGED <<fileVars, cliVars, pluginVars>>
    /\ UNCHANGED credManager
    /\ UNCHANGED rendering
    /\ UNCHANGED browserProvider

RegistryNext ==
    \/ RegistryGetEnabledProviders
    \/ RegistryGetProvider
    \/ RegistryGetAllProviderNames

SpecRegistry == RegistryInit /\ [][RegistryNext]_vars

(***************************************************************************)
(* A CredentialManager and its backends, called on their own              *)
(* (credentials/manager.ts, credentials/providers).                        *)
(***************************************************************************)
\* The strings given to parseReference: the three reference forms, plain
\* values, and values that hold a prefix without starting with it.
RefStrings ==
    {"", "alice", "op://Private/Wired/username", "bw://wired-login/username",
     "bw://wired-login", "bw://wired-login/apiKey", "env://RL_USER", "env://RL_EMPTY", "env://env://RL_USER",
     "xop://a", "a env://b", "op:/x", "bw:", "env://"}

\* new CredentialManager(), on a machine with some of the tools installed;
\* the user of an installed op tool is signed in to an account or is not.
ManagerInit ==
    /\ \E inst \in SUBSET {"1password", "bitwarden"}, signedIn \in BOOLEAN :
          /\ signedIn => "1password" \in inst
          /\ credManager = [installed |-> inst, signedIn |-> signedIn,
                            last |-> [call |-> "none"]]
    /\ settings = [outputFile |-> "ReadLater.md",
                   providers |-> [n \in Names |-> NoConfig],
                   syncInterval |-> 0, appendMode |-> TRUE, template |-> ""]
    /\ CliIdle
    /\ PluginIdle
    /\ FileIdle
    /\ RegistryIdle
    /\ RenderIdle
    /\ ProviderIdle

ManagerParseReference ==
    /\ \E ref \in RefStrings :
          credManager' = [credManager EXCEPT !.last =
                             [call |-> "parseReference", arg |-> ref,
                              value |-> parseReference(ref)]]
    /\ UNCHANGED <<fileVars, cliVars, pluginVars, registry>>
    /\ UNCHANGED rendering
    /\ UNCHANGED browserProvider

\* What `op read` may do: exit non-zero, or print the secret, a secret with
\* blanks around it, or an empty line.  It exits non-zero when no account
\* is signed in.
OpOutcomes ==
    {[exit |-> 1, stdout |-> ""], [exit |-> 0, stdout |-> "alice\n"],
     [exit |-> 0, stdout |-> " s3cret \n"], [exit |-> 0, stdout |-> "\n"]}

\* The items `bw get item` may print: a login, a login without a username
\* and a custom field, custom fields only (one of them empty), neither.
BwItems ==
    {[hasLogin |-> TRUE, username |-> "alice", password |-> "s3cret",
      hasFields |-> FALSE, fields |-> <<>>],
     [hasLogin |-> TRUE, username |-> "", password |-> Undefined,
      hasFields |-> TRUE, fields |-> <<[name |-> "username", value |-> "bob"]>>],
     [hasLogin |-> FALSE, username |-> Undefined, password |-> Undefined,
      hasFields |-> TRUE,
      fields |-> <<[name |-> "apiKey", value |-> "k3y"],
                   [name |-> "username", value |-> ""]>>],
     [hasLogin |-> FALSE, username |-> Undefined, password |-> Undefined,
      hasFields |-> FALSE, fields |-> <<>>]}

\* What `bw get item` may do: exit non-zero, print something that is not
\* JSON, print null, print an item.
BwOutcomes ==
    LET noItem == [hasLogin |-> FALSE, username |-> Undefined, password |-> Undefined,
                   hasFields |-> FALSE, fields |-> <<>>]
    IN {[exit |-> 1, json |-> "none", item |-> noItem],
        [exit |-> 0, json |-> "unparsable", item |-> noItem],
        [exit |-> 0, json |-> "null", item |-> noItem]}
       \cup {[exit |-> 0, json |-> "item", item |-> it] : it \in BwItems}

\* What the subprocess of the backend registered under name may do; the env
\* backend and a name without a backend run none.
Outcomes(name) ==
    CASE name = "1password" -> OpOutcomes
      [] name = "bitwarden" -> BwOutcomes
      [] OTHER -> {[exit |-> 0, stdout |-> ""]}

\* resolveCredential(value), the backend's subprocess doing outcome; value
\* is what parseReference makes of a string, or a reference that names no
\* registered backend.
ManagerResolveCredential ==
    /\ \E value \in {parseReference(ref) : ref \in RefStrings}
                      \cup {[isRef |-> TRUE, provider |-> "plain",
                              reference |-> "alice"]} :
         \E outcome \in Outcomes(value.provider) :
           LET installed == credManager.installed
               available == value.isRef
                              /\ managerGetProvider(value.provider, installed)
               credential == IF available
                             THEN getCredential(value.provider, value.reference,
                                                outcome).value
                             ELSE Undefined
           IN /\ (value.provider = "1password" /\ outcome.exit = 0)
                    => credManager.signedIn
              /\ credManager' = [credManager EXCEPT !.last =
                  [call |-> "resolveCredential", arg |-> value,
                   calls |-> BackendCalls(value, installed),
                   credential |-> credential,
                   value |-> resolveCredential(value,
                                 [available |-> available,
                                  credential |-> credential])]]
    /\ UNCHANGED <<fileVars, cliVars, pluginVars, registry>>
    /\ UNCHANGED rendering
    /\ UNCHANGED browserProvider

\* The maps given to resolveCredentials, as their entries in key order; the
\* values are plain strings, one of them empty, and references to the three
\* backends.
CredentialMaps ==
    LET values ==
    {[isRef |-> FALSE, provider |-> "plain", reference |-> "alice"],
     [isRef |-> FALSE, provider |-> "plain", reference |-> ""],
     [isRef |-> TRUE, provider |-> "1password",
      reference |-> "op://Private/Wired/secret"],
     [isRef |-> TRUE, provider |-> "bitwarden",
      reference |-> "bw://wired-login/password"],
     [isRef |-> TRUE, provider |-> "env", reference |-> "RL_USER"],
     [isRef |-> TRUE, provider |-> "env", reference |-> "RL_MISSING"]}
    IN {<<[key |-> "username", value |-> u], [key |-> "password", value |-> p]>> :
           u \in values, p \in values}

\* resolveCredentials(credentials), the subprocesses doing op and bw.
ManagerResolveCredentials ==
    /\ \E entries \in CredentialMaps, op \in OpOutcomes, bw \in BwOutcomes :
         LET outcomeOf == [n \in Registered |->
                              CASE n = "1password" -> op
                                [] n = "bitwarden" -> bw
                                [] OTHER -> [exit |-> 0, stdout |-> ""]]
         IN /\ op.exit = 0 => credManager.signedIn
            /\ credManager' = [credManager EXCEPT !.last =
                [call |-> "resolveCredentials", arg |-> entries,
                 value |-> resolveCredentials(entries, credManager.installed,
                                              outcomeOf)]]
    /\ UNCHANGED <<fileVars, cliVars, pluginVars, registry>>
    /\ UNCHANGED rendering
    /\ UNCHANGED browserProvider

\* isAvailable() of the backend registered under name.
BackendIsAvailable ==
    /\ \E name \in Registered :
          credManager' = [credManager EXCEPT !.last =
              [call |-> "isAvailable", backend |-> name,
               value |-> isAvailable(name, credManager.installed)]]
    /\ UNCHANGED <<fileVars, cliVars, pluginVars, registry>>
    /\ UNCHANGED rendering
    /\ UNCHANGED browserProvider

\* getCredential(reference) of the backend registered under name, its
\* subprocess doing outcome.
BackendGetCredential ==
    /\ \E name \in Registered, reference \in RefStrings :
         \E outcome \in Outcomes(name) :
          /\ (name = "1password" /\ outcome.exit = 0) => credManager.signedIn
          /\ credManager' = [credManager EXCEPT !.last =
              [call |-> "getCredential", backend |-> name,
               reference |-> reference, outcome |-> outcome,
               value |-> getCredential(name, reference, outcome)]]
    /\ UNCHANGED <<fileVars, cliVars, pluginVars, registry>>
    /\ UNCHANGED rendering
    /\ UNCHANGED browserProvider

\* listAvailableProviders().
ManagerListAvailableProviders ==
    /\ credManager' = [credManager EXCEPT !.last =
           [call |-> "listAvailableProviders",
            value |-> listAvailableProviders(credManager.installed)]]
    /\ UNCHANGED <<fileVars, cliVars, pluginVars, registry>>
    /\ UNCHANGED rendering
    /\ UNCHANGED browserProvider

ManagerNext ==
    \/ ManagerListAvailableProviders
    \/ ManagerParseReference
    \/ ManagerResolveCredential
    \/ ManagerResolveCredentials
    \/ BackendIsAvailable
    \/ BackendGetCredential

SpecManager == ManagerInit /\ [][ManagerNext]_vars

(***************************************************************************)
(* formatArticle called on its own with a template and an article          *)
(* (cli.ts formatArticle, main.ts ReadLaterPlugin.formatArticle).          *)
(***************************************************************************)
\* A template is written as its segments: text, a {{field}} placeholder, or
\* a {{#if field}}...{{/if}} block around text and placeholders.
TextSeg(s) == [kind |-> "text", name |-> s, inner |-> <<>>]

FieldSeg(f) == [kind |-> "field", name |-> f, inner |-> <<>>]

BlockSeg(f, inner) == [kind |-> "block", name |-> f, inner |-> inner]

\* The text of a segment as the template holds it.
RECURSIVE TemplateText(_)
TemplateText(segs) ==
    IF segs = <<>> THEN ""
    ELSE LET g == Head(segs)
         IN (CASE g.kind = "text" -> g.name
               [] g.kind = "field" -> "{{" \o g.name \o "}}"
               [] g.kind = "block" ->
                     "{{#if " \o g.name \o "}}" \o TemplateText(g.inner) \o "{{/if}}")
            \o TemplateText(Tail(segs))

\* The segments of the model: two texts, the placeholders, and the blocks of
\* excerpt and tags around a text, an excerpt or the tags.
Segments ==
    {TextSeg("Y"), TextSeg("\n")}
    \cup {FieldSeg(f) : f \in {"title", "author", "date", "excerpt", "tags"}}
    \cup {BlockSeg(f, b) :
             f \in {"excerpt", "tags"},
             b \in {<<TextSeg("X")>>, <<TextSeg("E:"), FieldSeg("excerpt")>>,
                    <<FieldSeg("tags"), TextSeg(" ")>>}}

\* The templates of the model: up to MaxSegments segments.
RenderTemplates == UNION {[1..n -> Segments] : n \in 0..MaxSegments}

\* The articles of the model: title, author and date present or absent; the
\* excerpt absent, empty or present; no tag, one tag, two tags.
RenderArticles ==
    {[title |-> IF full THEN "A1" ELSE Undefined,
      url |-> "/1",
      author |-> IF full THEN "Ann" ELSE Undefined,
      publicationDate |-> IF full THEN "2024-01-02" ELSE Undefined,
      excerpt |-> e, tags |-> t, source |-> "Wired.com"] :
        full \in BOOLEAN, e \in {Undefined, "", "hi"},
        t \in {<<>>, <<"a">>, <<"a", "b">>}}

RenderInit ==
    /\ \E t \in RenderTemplates, a \in RenderArticles :
          rendering = [template |-> t, article |-> a, out |-> Undefined]
    /\ settings = [outputFile |-> "ReadLater.md",
                   providers |-> [n \in Names |-> NoConfig],
                   syncInterval |-> 0, appendMode |-> TRUE,
                   template |-> TemplateText(rendering.template)]
    /\ CliIdle
    /\ PluginIdle
    /\ FileIdle
    /\ RegistryIdle
    /\ ManagerIdle
    /\ ProviderIdle

\* formatArticle(article, template).
RenderFormatArticle ==
    /\ rendering.out = Undefined
    /\ rendering' = [rendering EXCEPT !.out =
                        formatArticle(rendering.article, settings.template)]
    /\ UNCHANGED <<fileVars, cliVars, pluginVars, registry, credManager>>
    /\ UNCHANGED browserProvider

SpecRender == RenderInit /\ [][RenderFormatArticle]_vars

(***************************************************************************)
(* A BrowserProvider called on its own: authenticate, fetchArticles and    *)
(* cleanup are public and may be called in any order.                      *)
(***************************************************************************)
ProviderInit ==
    /\ \E n \in Names :
          browserProvider = [provider |-> NewProvider(n), calls |-> <<>>]
    /\ settings = [outputFile |-> "ReadLater.md",
                   providers |-> [n \in Names |-> NoConfig],
                   syncInterval |-> 0, appendMode |-> TRUE, template |-> ""]
    /\ CliIdle
    /\ PluginIdle
    /\ FileIdle
    /\ RegistryIdle
    /\ ManagerIdle
    /\ RenderIdle

\* authenticate() on the instance.
ProviderAuthenticate ==
    /\ Len(browserProvider.calls) < MaxCalls
    /\ \E outcome \in AuthOutcomes :
         LET r == authenticate(browserProvider.provider, outcome)
         IN browserProvider' =
                [provider |-> r.provider,
                 calls |-> Append(browserProvider.calls,
                                  [call |-> "authenticate", outcome |-> outcome,
                                   before |-> browserProvider.provider,
                                   threw |-> r.threw, ret |-> r.ret,
                                   message |-> Undefined, calls |-> <<>>])]
    /\ UNCHANGED <<fileVars, cliVars, pluginVars, registry, credManager, rendering>>

\* fetchArticles() on the instance.
ProviderFetchArticles ==
    /\ Len(browserProvider.calls) < MaxCalls
    /\ \E outcome \in FetchOutcomes(browserProvider.provider.name) :
         LET r == fetchArticles(browserProvider.provider, outcome)
         IN browserProvider' =
                [provider |-> r.provider,
                 calls |-> Append(browserProvider.calls,
                                  [call |-> "fetchArticles", outcome |-> outcome,
                                   before |-> browserProvider.provider,
                                   threw |-> r.threw, ret |-> r.articles,
                                   message |-> r.message, calls |-> r.calls])]
    /\ UNCHANGED <<fileVars, cliVars, pluginVars, registry, credManager, rendering>>

SpecProvider ==
    ProviderInit /\ [][ProviderAuthenticate \/ ProviderFetchArticles]_vars

(***************************************************************************)
(* The program is run as the command line or as the plugin.                *)
(***************************************************************************)
Init == CliInit \/ PluginInit

Next == CliNext \/ PluginNext

Spec == Init /\ [][Next]_vars

(***************************************************************************)
(* Properties.                                                             *)
(***************************************************************************)
LastOp == fileLog[Len(fileLog)]

\* The three writers as pairs of the target before and after the last
\* operation.
Writers ==
    {[prev |-> filePrev.direct, cur |-> fDirect],
     [prev |-> filePrev.vault, cur |-> fVault],
     [prev |-> filePrev.note, cur |-> fNote]}

\* C9: appending N to a target with non-empty content E leaves
\* E + "\n\n" + N, appending to an absent target leaves N, and a write in
\* replace mode leaves N whatever was there; so write "A", append "B" gives
\* "A\n\nB" and a following replace with "C" gives "C". This holds of the
\* CLI's direct write, of the sync manager and of the plugin.
C9_AppendReplaceSemantics ==
    Len(fileLog) > 0 =>
        \A w \in Writers :
            /\ LastOp.op = "replace" => w.cur = File(LastOp.content)
            /\ (LastOp.op = "append" /\ w.prev.exists /\ w.prev.content # "") =>
                   w.cur = File(w.prev.content \o "\n\n" \o LastOp.content)
            /\ (LastOp.op = "append" /\ ~w.prev.exists) => w.cur = File(LastOp.content)
            /\ (/\ Len(fileLog) >= 2
                /\ fileLog[1] = [op |-> "replace", content |-> "A"]
                /\ fileLog[2] = [op |-> "append", content |-> "B"]) =>
                   /\ Len(fileLog) = 2 => w.cur = File("A\n\nB")
                   /\ (/\ Len(fileLog) = 3
                       /\ fileLog[3] = [op |-> "replace", content |-> "C"]) =>
                          w.cur = File("C")

\* C9 happens: "A" was written, "B" appended and "C" written in replace
\* mode, after the target held "A\n\nB".
C9_Witness ==
    /\ fileLog = <<[op |-> "replace", content |-> "A"],
                   [op |-> "append", content |-> "B"],
                   [op |-> "replace", content |-> "C"]>>
    /\ filePrev.vault = File("A\n\nB")
    /\ filePrev.direct = File("A\n\nB")
    /\ filePrev.note = File("A\n\nB")
    /\ fVault = File("C")

\* C10: from the same prior state of the target, the CLI's direct-file
\* append and ObsidianSyncManager.appendFile leave the same content.
C10_SameAppendInBothModes ==
    (/\ Len(fileLog) > 0
     /\ LastOp.op = "append"
     /\ LastOp.content # ""
     /\ filePrev.direct = filePrev.vault) => fDirect = fVault

\* Event ev of provider number k is in the history events.
HasEvent(events, ev, k) ==
    \E e \in 1..Len(events) : events[e].ev = ev /\ events[e].who = k

\* The providers of the CLI's loop are all closed.
Closed(p) == ~p.page /\ ~p.browser

\* C4: when a credential of an enabled provider fails to resolve, the run
\* records a failed result with the resolution error for that provider and
\* goes on to the summary; it does not abort.
C4_ResolutionFailureIsScoped ==
    (cliPc = "exit" /\ Len(cliEvents) > 0 /\ cliEvents[1].ev = "fatal") =>
        /\ \E k \in 1..Len(cliResults) :
              ~cliResults[k].success /\ cliResults[k].error = cliEvents[1].who
        /\ \E e \in 1..Len(cliEvents) : cliEvents[e].ev = "summary"

\* C7: once fetchArticles of an authenticated provider has returned or
\* thrown, the provider holds no open page and no open browser.
C7_FetchReleasesOnEveryPath ==
    \A k \in 1..Len(cliProviders) :
        HasEvent(cliEvents, "fetchArticles", k) => Closed(cliProviders[k])

\* C8: once authenticate has answered false, the provider holds no open
\* page and no open browser, and at the end of a run no provider does.
C8_FailedAuthenticateReleases ==
    /\ \A k \in 1..Len(cliProviders) :
          HasEvent(cliEvents, "notAuthenticated", k) => Closed(cliProviders[k])
    /\ cliPc = "exit" => \A k \in 1..Len(cliProviders) : Closed(cliProviders[k])

\* C1: a finished run of the plugin holds exactly one result per attempted
\* provider, in catalog order.
C1_OneResultPerProvider ==
    \A i \in 1..Len(runs) :
        runs[i].pc = "done" =>
            /\ Len(runs[i].results) = Len(runs[i].providers)
            /\ \A k \in 1..Len(runs[i].results) :
                  runs[i].results[k].provider = displayName(runs[i].providers[k].name)

\* C5: within one run the note is written at most once, and no provider
\* is authenticated or fetched after the write.
C5_OneWriteAfterAllProviders ==
    \A i \in 1..Len(runs) :
        \A e \in 1..Len(runs[i].events) :
            runs[i].events[e].ev = "write" =>
                \A e2 \in 1..Len(runs[i].events) :
                    /\ e2 # e => runs[i].events[e2].ev # "write"
                    /\ e2 > e => runs[i].events[e2].ev \notin
                                     {"authenticate", "fetchArticles"}

\* C6: at most one invocation of syncAllProviders is inside its provider
\* loop at any time.
C6_RunsNeverOverlap == Cardinality(Running) <= 1

\* A provider loop: the CLI's, or that of a run of the plugin.
CliLoop ==
    [providers |-> cliProviders, results |-> cliResults, events |-> cliEvents,
     done |-> (cliPc \in {"save", "summary", "exit"} /\ Len(cliProviders) > 0)]

RunLoop(i) ==
    [providers |-> runs[i].providers, results |-> runs[i].results,
     events |-> runs[i].events, done |-> (runs[i].pc = "done")]

Loops == {CliLoop} \cup {RunLoop(i) : i \in 1..Len(runs)}

\* The results a loop holds for its provider number k.
ResultsOf(loop, k) ==
    SelectSeq(loop.results,
              LAMBDA r : r.provider = displayName(loop.providers[k].name))

\* The articles the providers of the CLI's loop have returned, in the order
\* of the loop, read from the first e events.
RECURSIVE Returned(_)
Returned(e) ==
    IF e = 0 THEN <<>>
    ELSE IF cliEvents[e].ev = "fetched"
    THEN Returned(e - 1) \o
         [j \in 1..cliEvents[e].who |->
             ArticleOf(cliProviders[cliEvents[e - 1].who].name, j)]
    ELSE Returned(e - 1)

\* C2: when fetchArticles of provider k throws, the loop holds one result for
\* k, failed and with the exception's message; a finished loop has
\* authenticated every provider, those after k too; and what the other
\* providers returned is collected whole, whoever failed.
C2_FailureIsolation ==
    /\ \A loop \in Loops :
          /\ \A e \in 1..(Len(loop.events) - 1) :
                (loop.events[e].ev = "fetchArticles" /\ loop.events[e + 1].ev = "throw") =>
                    ResultsOf(loop, loop.events[e].who) =
                        <<[provider |->
                              displayName(loop.providers[loop.events[e].who].name),
                           success |-> FALSE, articlesAdded |-> 0,
                           error |-> loop.events[e + 1].who]>>
          /\ loop.done => \A k \in 1..Len(loop.providers) :
                             HasEvent(loop.events, "authenticate", k)
    /\ allArticles = Returned(Len(cliEvents))
    /\ \A e \in 2..Len(cliEvents) :
          cliEvents[e].ev = "fetched" =>
              ResultsOf(CliLoop, cliEvents[e - 1].who) =
                  <<[provider |-> displayName(cliProviders[cliEvents[e - 1].who].name),
                     success |-> TRUE, articlesAdded |-> cliEvents[e].who,
                     error |-> Undefined]>>

\* C2 happens: the first of two providers threw in extractArticles, the
\* second returned its articles, and the run of the CLI is over.
C2_Witness ==
    /\ cliPc = "exit"
    /\ Len(cliProviders) = 2
    /\ Len(cliResults) = 2
    /\ ~cliResults[1].success
    /\ cliResults[1].error = ExtractError
    /\ cliResults[2].success
    /\ cliResults[2].articlesAdded > 0
    /\ Len(allArticles) = cliResults[2].articlesAdded

\* C3: a provider whose authenticate answered false is never asked for its
\* articles in that loop, and the loop holds one result for it: failed, no
\* articles, "Authentication failed".
C3_NoFetchAfterFailedAuthentication ==
    \A loop \in Loops :
        \A k \in 1..Len(loop.providers) :
            HasEvent(loop.events, "notAuthenticated", k) =>
                /\ ~HasEvent(loop.events, "fetchArticles", k)
                /\ ResultsOf(loop, k) =
                       <<[provider |-> displayName(loop.providers[k].name),
                          success |-> FALSE, articlesAdded |-> 0,
                          error |-> "Authentication failed"]>>

\* C3 happens: in a finished run of the plugin the first provider was not
\* authenticated and the second was fetched.
C3_Witness ==
    \E i \in 1..Len(runs) :
        /\ runs[i].pc = "done"
        /\ Len(runs[i].providers) = 2
        /\ HasEvent(runs[i].events, "notAuthenticated", 1)
        /\ HasEvent(runs[i].events, "fetchArticles", 2)
        /\ Len(runs[i].results) = 2
        /\ ~runs[i].results[1].success
        /\ runs[i].results[2].success

\* a is the beginning of b.
IsPrefix(a, b) == Len(a) <= Len(b) /\ SubSeq(b, 1, Len(a)) = a

\* C11: in append mode what the note held before a write of the plugin is
\* the beginning of what it holds after it.
C11_AppendKeepsEarlierContent ==
    (settings.appendMode /\ Len(runs) > 0 /\ filePrev.note.exists) =>
        IsPrefix(filePrev.note.content, fNote.content)

\* main has done ev.
CliEvent(ev) == \E e \in 1..Len(cliEvents) : cliEvents[e].ev = ev

\* C12: a run of the CLI that is not cut short by a fatal error or an
\* invalid vault exits with a non-zero status exactly when a result has
\* success = false.
C12_ExitStatusTellsFailure ==
    (cliPc = "exit" /\ ~CliEvent("fatal") /\ ~CliEvent("invalidVault")) =>
        (cliExit # 0 <=> Failures(cliResults) > 0)

\* C13: the exit status of a run in which some providers succeeded and some
\* failed differs from the status main gives when the same providers all fail.
C13_PartialDiffersFromTotal ==
    (/\ cliPc = "exit"
     /\ CliEvent("summary")
     /\ \E k \in 1..Len(cliResults) : cliResults[k].success
     /\ \E k \in 1..Len(cliResults) : ~cliResults[k].success) =>
        cliExit # ExitStatus([k \in 1..Len(cliResults) |->
                                 [cliResults[k] EXCEPT !.success = FALSE]])

\* C14: with no provider enabled the run of the CLI holds no result, has
\* called no provider, has written nothing and does not exit with a
\* failure status.
C14_EmptySetIsNoError ==
    CliEvent("noProviders") =>
        /\ cliResults = <<>>
        /\ ~CliEvent("authenticate") /\ ~CliEvent("fetchArticles")
        /\ ~CliEvent("write") /\ ~CliEvent("stdout")
        /\ cliPc = "exit" => cliExit = 0

\* C15: at the end of a run of the CLI every result with success = true has
\* no error, and the lastSync of its provider is set.
C15_SuccessUpdatesLastSync ==
    cliPc = "exit" =>
        \A k \in 1..Len(cliResults) :
            cliResults[k].success =>
                /\ cliResults[k].error = Undefined
                /\ settings.providers[cliProviders[k].name].lastSync # 0

\* C17: no result of a run of the plugin carries the error of a write to
\* the note.
C17_WriteFailureIsNoProviderFailure ==
    \A i \in 1..Len(runs) :
        \A k \in 1..Len(runs[i].results) :
            runs[i].results[k].error \notin {WriteError, "File already exists.", "ReadLater.md is not a file"}

\* C18: a run of the CLI that has attempted a provider and is over has
\* printed its summary.
C18_SummaryAlwaysProduced ==
    (cliPc = "exit" /\ CliEvent("authenticate")) => CliEvent("summary")

\* A step in which the lastSync of identifier n changes.
LastSyncChanges(n) ==
    settings'.providers[n].lastSync # settings.providers[n].lastSync

\* A step in which run i pushes a result.
Pushes(i) ==
    /\ i <= Len(runs')
    /\ Len(runs'[i].results) = Len(runs[i].results) + 1

Pushed(i) == runs'[i].results[Len(runs'[i].results)]

\* C16: the lastSync of a provider changes only in a step in which a run
\* that is at that provider pushes its successful result; a step that pushes
\* a failed result (authentication, fetch, save) changes no lastSync.
C16_LastSyncOnlyOnSuccess ==
    [][/\ \A n \in Names :
             LastSyncChanges(n) =>
                 \E i \in 1..Len(runs) :
                     /\ Pushes(i)
                     /\ runs[i].idx <= Len(runs[i].providers)
                     /\ runs[i].providers[runs[i].idx].name = n
                     /\ Pushed(i) = [provider |-> displayName(n), success |-> TRUE,
                                     articlesAdded |-> Len(runs'[i].articles),
                                     error |-> Undefined]
       /\ \A i \in 1..Len(runs) :
             (Pushes(i) /\ ~Pushed(i).success) =>
                 \A n \in Names : ~LastSyncChanges(n)]_vars

\* C16 happens: a finished run whose first provider failed authentication
\* and whose second provider succeeded; only the second has a lastSync.
C16_Witness ==
    \E i \in 1..Len(runs) :
        /\ runs[i].pc = "done"
        /\ Len(runs[i].results) = 2
        /\ runs[i].results[1].error = "Authentication failed"
        /\ runs[i].results[2].success
        /\ settings.providers[runs[i].providers[1].name].lastSync = 0
        /\ settings.providers[runs[i].providers[2].name].lastSync > 0

\* The document holds an entry under key n; with the flag set.
HasEntry(n) ==
    \E k \in 1..Len(registry.document) : registry.document[k].key = n

HasEnabledEntry(n) ==
    \E k \in 1..Len(registry.document) :
        registry.document[k].key = n /\ registry.document[k].enabled

\* The position of identifier n in the registration order.
RegistrationOrder == <<"wired", "guardian", "hbr", "medium", "irishtimes">>

Position(n) == CHOOSE k \in 1..Len(RegistrationOrder) : RegistrationOrder[k] = n

\* C19: getEnabledProviders returns one instance for each registered
\* identifier whose entry is present and enabled, none for any other, in
\* registration order whatever the key order of the document.
C19_EnabledProvidersExact ==
    registry.last.call = "getEnabledProviders" =>
        LET out == registry.last.value IN
        /\ \A k \in 1..Len(out) :
              /\ Position(out[k].name) \in 1..5
              /\ RegistrationOrder[Position(out[k].name)] = out[k].name
              /\ HasEnabledEntry(out[k].name)
        /\ \A k \in 1..Len(RegistrationOrder) :
              HasEnabledEntry(RegistrationOrder[k]) =>
                  Cardinality({j \in 1..Len(out) :
                                  out[j].name = RegistrationOrder[k]}) = 1
        /\ \A a, b \in 1..Len(out) :
              a < b => Position(out[a].name) < Position(out[b].name)

\* C19 happens: the document lists guardian, then a disabled hbr, then
\* wired; the instances come back as wired, guardian.
C19_Witness ==
    /\ registry.last.call = "getEnabledProviders"
    /\ Len(registry.document) = 3
    /\ registry.document[1] = [key |-> "guardian", enabled |-> TRUE]
    /\ registry.document[2] = [key |-> "hbr", enabled |-> FALSE]
    /\ registry.document[3] = [key |-> "wired", enabled |-> TRUE]
    /\ Len(registry.last.value) = 2
    /\ registry.last.value[1].name = "wired"
    /\ registry.last.value[2].name = "guardian"

\* C20: getProvider(id) returns an instance of a registered id that has an
\* entry, enabled or not, and null when the id is not registered or has no
\* entry.
C20_LookupIgnoresEnabledFlag ==
    registry.last.call = "getProvider" =>
        LET id == registry.last.name IN
        IF id \in {"wired", "guardian", "hbr", "medium", "irishtimes"} /\ HasEntry(id)
        THEN registry.last.value = [name |-> id, browser |-> FALSE, page |-> FALSE]
        ELSE registry.last.value = [null |-> TRUE]

\* C20 happens: the id looked up is registered and its entry is disabled,
\* and an instance is returned.
C20_Witness ==
    /\ registry.last.call = "getProvider"
    /\ registry.last.name = "guardian"
    /\ HasEntry("guardian")
    /\ ~HasEnabledEntry("guardian")
    /\ registry.last.value = [name |-> "guardian", browser |-> FALSE, page |-> FALSE]

\* C21: getAllProviderNames returns each of the five registered identifiers
\* once, whatever the settings document holds and whatever was called
\* before, and no call changes the document.
C21_AllNamesWhateverTheDocument ==
    [][registry'.last.call = "getAllProviderNames" =>
          /\ Len(registry'.last.value) = 5
          /\ {registry'.last.value[k] : k \in 1..5} =
                 {"wired", "guardian", "hbr", "medium", "irishtimes"}
          /\ registry'.document = registry.document]_vars

\* C21 happens: the document holds a disabled guardian and nothing else, and
\* the five identifiers are listed.
C21_Witness ==
    /\ registry.last.call = "getAllProviderNames"
    /\ registry.document = <<[key |-> "guardian", enabled |-> FALSE]>>
    /\ Len(registry.last.value) = 5
    /\ \E k \in 1..5 : registry.last.value[k] = "hbr"

\* C22: a string starting with "op://" parses to the 1Password backend with
\* the whole string as pointer, one starting with "bw://" to the Bitwarden
\* backend with the whole string as pointer, one starting with "env://" to
\* the env backend with the prefix stripped; any other string comes back
\* unchanged as a plain value.
C22_ParseReference ==
    credManager.last.call = "parseReference" =>
        LET ref == credManager.last.arg
            out == credManager.last.value
            Starts(prefix) ==
                Len(ref) >= Len(prefix) /\ SubSeq(ref, 1, Len(prefix)) = prefix
        IN IF Starts("op://")
           THEN out.isRef /\ out.provider = "1password" /\ out.reference = ref
           ELSE IF Starts("bw://")
           THEN out.isRef /\ out.provider = "bitwarden" /\ out.reference = ref
           ELSE IF Starts("env://")
           THEN /\ out.isRef
                /\ out.provider = "env"
                /\ out.reference = SubSeq(ref, 7, Len(ref))
           ELSE ~out.isRef /\ out.reference = ref

\* C22 happens: "env://RL_USER" was parsed to the env backend with pointer
\* "RL_USER".
C22_Witness ==
    /\ credManager.last.call = "parseReference"
    /\ credManager.last.arg = "env://RL_USER"
    /\ credManager.last.value.provider = "env"
    /\ credManager.last.value.reference = "RL_USER"

\* Whether the backend a reference names is registered and can be used on
\* the machine.
BackendUsable(v) ==
    /\ v.provider \in {"1password", "bitwarden", "env"}
    /\ v.provider = "env" \/ v.provider \in credManager.installed

NotAvailableMessage(v) == "Credential provider '" \o v.provider \o "' not available"

NotFoundMessage(v) == "Failed to resolve credential: " \o v.reference

\* C23 as stated: a plain string comes back unchanged and no backend is
\* called; an unregistered or unavailable backend fails the call with the
\* backend-unavailable error without getCredential being called; an
\* available backend that returns null fails it with the not-found error;
\* otherwise the call returns what the backend returned.
C23_ResolveReturnsBackendSecret ==
    credManager.last.call = "resolveCredential" =>
        LET v == credManager.last.arg
            r == credManager.last.value
            got == credManager.last.credential
        IN /\ ~v.isRef =>
                 /\ r = [threw |-> FALSE, message |-> Undefined, value |-> v.reference]
                 /\ credManager.last.calls = <<>>
           /\ (v.isRef /\ ~BackendUsable(v)) =>
                 /\ r.threw /\ r.message = NotAvailableMessage(v)
                 /\ \A k \in 1..Len(credManager.last.calls) :
                       credManager.last.calls[k] # "getCredential"
           /\ (v.isRef /\ BackendUsable(v) /\ got = Undefined) =>
                 /\ r.threw /\ r.message = NotFoundMessage(v)
                 /\ r.message # NotAvailableMessage(v)
           /\ (v.isRef /\ BackendUsable(v) /\ got # Undefined) =>
                 ~r.threw /\ r.value = got

\* C23 amended: as above, and an available backend that returns the empty
\* string fails the call with the not-found error as well; the call returns
\* what the backend returned when that is a non-empty string.
C23_ResolveOrDistinctError ==
    credManager.last.call = "resolveCredential" =>
        LET v == credManager.last.arg
            r == credManager.last.value
            got == credManager.last.credential
        IN /\ ~v.isRef =>
                 /\ r = [threw |-> FALSE, message |-> Undefined, value |-> v.reference]
                 /\ credManager.last.calls = <<>>
           /\ (v.isRef /\ ~BackendUsable(v)) =>
                 /\ r.threw /\ r.message = NotAvailableMessage(v)
                 /\ \A k \in 1..Len(credManager.last.calls) :
                       credManager.last.calls[k] # "getCredential"
           /\ (v.isRef /\ BackendUsable(v) /\ got \in {Undefined, ""}) =>
                 /\ r.threw /\ r.message = NotFoundMessage(v)
                 /\ r.message # NotAvailableMessage(v)
           /\ (v.isRef /\ BackendUsable(v) /\ got \notin {Undefined, ""}) =>
                 ~r.threw /\ r.value = got

\* C23 happens: 1Password is installed and `op read` prints an empty line;
\* the backend returns the empty string and the call fails with the
\* not-found error.
C23_Witness ==
    /\ credManager.last.call = "resolveCredential"
    /\ credManager.last.arg.provider = "1password"
    /\ "1password" \in credManager.installed
    /\ credManager.last.credential = ""
    /\ credManager.last.value.threw
    /\ credManager.last.value.message =
           "Failed to resolve credential: op://Private/Wired/username"

\* Whether pat occurs in s.
Contains(s, pat) == \E i \in 1..(Len(s) - Len(pat) + 1) : SubSeq(s, i, i + Len(pat) - 1) = pat

\* The keys the result of resolveCredentials holds.
ResolvedKeys(result) == {result.resolved[k].key : k \in 1..Len(result.resolved)}

\* C24: resolveCredentials gives a value for every key of the map, or
\* fails with an error that names the key and the reference of an entry of
\* the map.
C24_EveryEntryResolvedOrNamed ==
    credManager.last.call = "resolveCredentials" =>
        LET entries == credManager.last.arg
            r == credManager.last.value
        IN IF r.threw
           THEN \E k \in 1..Len(entries) :
                    /\ Contains(r.message, entries[k].key)
                    /\ Contains(r.message, entries[k].value.reference)
           ELSE \A k \in 1..Len(entries) : entries[k].key \in ResolvedKeys(r)

\* C25: isAvailable of the 1Password and Bitwarden backends returns a
\* boolean and getCredential returns a secret or null, whatever the pointer
\* and whatever the subprocess does; neither throws.
C25_BackendsNeverThrow ==
    (/\ credManager.last.call \in {"isAvailable", "getCredential"}
     /\ credManager.last.backend \in {"1password", "bitwarden"}) =>
        /\ ~credManager.last.value.threw
        /\ credManager.last.call = "isAvailable" =>
              credManager.last.value.value \in BOOLEAN
        /\ credManager.last.call = "getCredential" =>
              credManager.last.value.value \in STRING

\* C25 happens: `bw get item` printed something that is not JSON for a
\* well-formed pointer, and getCredential returned null.
C25_Witness ==
    /\ credManager.last.call = "getCredential"
    /\ credManager.last.backend = "bitwarden"
    /\ credManager.last.reference = "bw://wired-login/username"
    /\ credManager.last.outcome.json = "unparsable"
    /\ credManager.last.value = [threw |-> FALSE, value |-> Undefined]

\* What the grammar of the renderer gives for a segment: the field value or
\* its fallback for a placeholder, the inner text of a block whose field is
\* present, nothing for a block whose field is absent or empty.
FieldPresent(article, f) ==
    CASE f = "excerpt" -> article.excerpt \notin {Undefined, ""}
      [] f = "tags" -> Len(article.tags) > 0

FieldText(article, f) ==
    CASE f = "title" -> IF article.title = Undefined THEN "Untitled" ELSE article.title
      [] f = "author" -> IF article.author = Undefined THEN "Unknown" ELSE article.author
      [] f = "date" -> IF article.publicationDate = Undefined THEN ""
                       ELSE article.publicationDate
      [] f = "excerpt" -> IF article.excerpt = Undefined THEN "" ELSE article.excerpt
      [] f = "tags" -> CASE Len(article.tags) = 0 -> ""
                         [] Len(article.tags) = 1 -> article.tags[1]
                         [] Len(article.tags) = 2 ->
                               article.tags[1] \o ", " \o article.tags[2]

RECURSIVE Rendered(_, _)
Rendered(segs, article) ==
    IF segs = <<>> THEN ""
    ELSE LET g == Head(segs)
         IN (CASE g.kind = "text" -> g.name
               [] g.kind = "field" -> FieldText(article, g.name)
               [] g.kind = "block" ->
                     IF FieldPresent(article, g.name)
                     THEN Rendered(g.inner, article) ELSE "")
            \o Rendered(Tail(segs), article)

\* The {{excerpt}} and {{tags}} placeholders of the template stand inside a
\* block of their own field.
GuardedPlaceholders(segs) ==
    /\ \A k \in 1..Len(segs) :
          segs[k].kind = "field" => segs[k].name \notin {"excerpt", "tags"}
    /\ \A k \in 1..Len(segs) :
          segs[k].kind = "block" =>
              \A j \in 1..Len(segs[k].inner) :
                  segs[k].inner[j].kind = "field" =>
                      segs[k].inner[j].name = segs[k].name

\* C26: a block of excerpt or tags is removed whole when the field is
\* absent or empty; when the field is present its delimiters go, its inner
\* text stays and the placeholder of the field inside it is expanded, the
\* tags joined with ", ".
C26_ConditionalBlocks ==
    (rendering.out # Undefined /\ GuardedPlaceholders(rendering.template)) =>
        rendering.out = Rendered(rendering.template, rendering.article)

\* C26 happens: "{{#if excerpt}}X{{/if}}Y" rendered for an article without
\* excerpt is "Y".
C26_Witness ==
    /\ settings.template = "{{#if excerpt}}X{{/if}}Y"
    /\ rendering.article.excerpt = Undefined
    /\ rendering.out = "Y"

\* C27: every placeholder of the template is replaced: title and author by
\* their value or "Untitled" and "Unknown", date, excerpt and tags by their
\* value or the empty string, inside a block or outside; no {{excerpt}} or
\* {{tags}} text remains.
C27_EveryPlaceholderReplaced ==
    rendering.out # Undefined =>
        /\ rendering.out = Rendered(rendering.template, rendering.article)
        /\ ~Contains(rendering.out, "{{excerpt}}")
        /\ ~Contains(rendering.out, "{{tags}}")

\* Version-control sync is asked for and the working copy is a repository.
GitSyncOn == useGitSync /\ vault.configured /\ vault.valid /\ vault.git

\* The pull of the run failed.
PullFailed ==
    \E p \in 1..Len(cliEvents) :
        cliEvents[p].ev = "gitPull" /\ cliEvents[p].who = FALSE

\* C28: with version-control sync on a repository the pull comes before any
\* authenticate, and a run whose pull failed still authenticates every
\* enabled provider and still writes what it collected.
C28_PullFirstAndNotFatal ==
    /\ GitSyncOn =>
          \A e \in 1..Len(cliEvents) :
              cliEvents[e].ev = "authenticate" =>
                  \E p \in 1..(e - 1) : cliEvents[p].ev = "gitPull"
    /\ PullFailed => cliPc # "exit" \/ cliEvents[Len(cliEvents)].ev # "gitPull"
    /\ (PullFailed /\ cliPc \in {"summary", "exit"}) =>
          /\ Len(cliProviders) > 0 =>
                \A k \in 1..Len(cliProviders) :
                    \E e \in 1..Len(cliEvents) :
                        cliEvents[e].ev = "authenticate" /\ cliEvents[e].who = k
          /\ (Len(allArticles) > 0 /\ cliPc = "summary") => CliEvent("write")

\* C28 happens: the pull failed, two providers were authenticated after it
\* and the articles were written.
C28_Witness ==
    /\ PullFailed
    /\ cliPc = "exit"
    /\ Len(cliProviders) = 2
    /\ Len(allArticles) > 0
    /\ CliEvent("write")
    /\ CliEvent("summary")

\* The place of a version-control step in the order stage, diff check,
\* commit, push; 0 for any other event.
GitRank(ev) ==
    CASE ev = "gitAdd" -> 1
      [] ev = "gitDiff" -> 2
      [] ev = "gitCommit" -> 3
      [] ev = "gitPush" -> 4
      [] OTHER -> 0

\* C29: the version-control steps follow the write in the order stage, diff
\* check, commit, push; the one path staged is the output path; a diff check
\* that shows no change is followed by no commit, no logged error and no
\* push; a push is attempted only after a commit was created in the run.
C29_StageDiffCommitPush ==
    /\ \A e \in 1..Len(cliEvents) :
          GitRank(cliEvents[e].ev) > 0 =>
              /\ \E w \in 1..(e - 1) : cliEvents[w].ev = "write"
              /\ \A b \in 1..Len(cliEvents) :
                    (GitRank(cliEvents[b].ev) > 0 /\ b # e) =>
                        (b < e <=> GitRank(cliEvents[b].ev) < GitRank(cliEvents[e].ev))
    /\ \A e \in 1..Len(cliEvents) :
          cliEvents[e].ev = "gitAdd" => cliEvents[e].who = settings.outputFile
    /\ \A e \in 1..Len(cliEvents) :
          (cliEvents[e].ev = "gitDiff" /\ cliEvents[e].who = FALSE) =>
              /\ ~CliEvent("gitCommit")
              /\ ~CliEvent("gitError")
              /\ ~CliEvent("gitPush")
              /\ git.ahead = 0
    /\ CliEvent("gitCommit") =>
          /\ \E e \in 1..Len(cliEvents) :
                cliEvents[e].ev = "gitDiff" /\ cliEvents[e].who = TRUE
          /\ git.head = fVault
    /\ CliEvent("gitPush") => CliEvent("gitCommit")

\* C29 happens: the run replaced the output file by what HEAD holds; the
\* path was staged, the diff check showed no change, and the run ended
\* without commit or push.
C29_Witness ==
    /\ cliPc = "exit"
    /\ CliEvent("summary")
    /\ \E e \in 1..Len(cliEvents) :
          cliEvents[e].ev = "gitDiff" /\ cliEvents[e].who = FALSE
    /\ CliEvent("gitAdd")
    /\ ~CliEvent("gitCommit")

\* The push of the run failed.
PushFailed ==
    \E p \in 1..Len(cliEvents) :
        cliEvents[p].ev = "gitPush" /\ cliEvents[p].who = FALSE

\* What the run wrote.
Written == cliEvents[CHOOSE w \in 1..Len(cliEvents) : cliEvents[w].ev = "write"].who

IsSuffix(a, b) == Len(a) <= Len(b) /\ SubSeq(b, Len(b) - Len(a) + 1, Len(b)) = a

\* C30: whatever pull, commit and push do, the output file of the vault
\* holds what was written; after a failed push the commit is still there,
\* ahead of the remote and holding the output file; and a run that wrote
\* prints its summary and exits with 1 when a provider failed, 0 otherwise.
C30_GitFailureKeepsWriteAndOutcome ==
    /\ (CliEvent("write") /\ vault.configured) =>
          /\ fVault.exists
          /\ IF settings.appendMode
             THEN IsSuffix(Written, fVault.content)
             ELSE fVault.content = Written
    /\ PushFailed => git.ahead >= 1 /\ git.head = fVault
    /\ (CliEvent("write") /\ cliPc = "exit") =>
          /\ CliEvent("summary")
          /\ Len(cliResults) = Len(cliProviders)
          /\ cliExit = IF \E k \in 1..Len(cliResults) : ~cliResults[k].success
                       THEN 1 ELSE 0

\* C30 happens: the commit was created and the push failed; the run ended
\* with status 0, the commit one ahead of the remote.
C30_Witness ==
    /\ PushFailed
    /\ cliPc = "exit"
    /\ cliExit = 0
    /\ git.ahead = 1
    /\ git.head = fVault
    /\ fVault.exists

\* How many times event ev of provider number k is in the history events.
Count(events, ev, k) ==
    Cardinality({e \in 1..Len(events) : events[e].ev = ev /\ events[e].who = k})

\* Provider number k is called, by authenticate or fetchArticles, after
\* event number e of the history events.
CalledAfter(events, k, e) ==
    \E f \in (e + 1)..Len(events) :
        /\ events[f].ev \in {"authenticate", "fetchArticles"}
        /\ events[f].who = k

\* C31: in one provider loop authenticate is called at most once and
\* fetchArticles at most once for each provider, a provider that was not
\* authenticated or whose fetchArticles threw is not called again in that
\* loop, and a provider whose authenticate was not called yet in a loop is a
\* fresh instance of that loop: no browser, no page.
C31_NoRetryWithinRun ==
    \A loop \in Loops :
        \A k \in 1..Len(loop.providers) :
            /\ Count(loop.events, "authenticate", k) <= 1
            /\ Count(loop.events, "fetchArticles", k) <= 1
            /\ \A e \in 1..Len(loop.events) :
                  (\/ /\ loop.events[e].ev = "notAuthenticated"
                      /\ loop.events[e].who = k
                   \/ /\ e > 1
                      /\ loop.events[e].ev = "throw"
                      /\ loop.events[e - 1].ev = "fetchArticles"
                      /\ loop.events[e - 1].who = k)
                  => ~CalledAfter(loop.events, k, e)
            /\ ~HasEvent(loop.events, "authenticate", k) =>
                  loop.providers[k] =
                      [name |-> loop.providers[k].name, browser |-> FALSE,
                       page |-> FALSE]

\* C31 happens: the first run of the plugin is over, its first provider was
\* not authenticated and its second threw while fetching, and a second run
\* has started whose providers were not authenticated yet.
C31_Witness ==
    /\ Len(runs) = 2
    /\ runs[1].pc = "done"
    /\ Len(runs[1].providers) = 2
    /\ HasEvent(runs[1].events, "notAuthenticated", 1)
    /\ HasEvent(runs[1].events, "fetchArticles", 2)
    /\ ~runs[1].results[2].success
    /\ runs[2].pc = "auth"
    /\ runs[2].events = <<>>

\* The calls of authenticate among the first c - 1 calls made on the
\* BrowserProvider.
AuthenticatedBefore(c) ==
    {a \in 1..(c - 1) : browserProvider.calls[a].call = "authenticate"}

\* C32: fetchArticles called on a BrowserProvider whose authenticate was
\* never called, or whose last authenticate answered false, throws
\* "Not authenticated" and calls neither page.goto nor extractArticles.
C32_FetchNeedsSuccessfulAuthenticate ==
    \A c \in 1..Len(browserProvider.calls) :
        LET call == browserProvider.calls[c]
            auths == AuthenticatedBefore(c)
            last == CHOOSE a \in auths : \A b \in auths : b <= a
        IN (/\ call.call = "fetchArticles"
            /\ (auths = {} \/ ~browserProvider.calls[last].ret))
           => /\ call.threw
              /\ call.message = "Not authenticated"
              /\ call.calls = <<>>

\* C33: authenticate of a BrowserProvider never ends in an exception, and
\* it answers false when chromium.launch, newPage, goto(loginUrl) or
\* performLogin throws or isAuthenticated answers false.
C33_AuthenticateNeverThrows ==
    \A c \in 1..Len(browserProvider.calls) :
        LET call == browserProvider.calls[c]
        IN call.call = "authenticate" =>
              /\ ~call.threw
              /\ call.ret = (call.outcome = "authenticated")

\* C33 happens: authenticate was called on one instance and answered false
\* each time: chromium.launch threw, then performLogin threw, then
\* isAuthenticated answered false.
C33_Witness ==
    /\ Len(browserProvider.calls) = MaxCalls
    /\ \A c \in 1..MaxCalls :
          /\ browserProvider.calls[c].call = "authenticate"
          /\ ~browserProvider.calls[c].ret
    /\ browserProvider.calls[1].outcome = "launchThrows"
    /\ browserProvider.calls[2].outcome = "loginThrows"
    /\ browserProvider.calls[3].outcome = "notAuthenticated"

\* main met a settings document that is not JSON, or a vault path without
\* its .obsidian directory.
AbortedBeforeRun == CliEvent("parseThrows") \/ CliEvent("invalidVault")

\* C34: a settings document that JSON.parse rejects, or a vault path that
\* is not a valid vault, ends the process with status 1 before the provider
\* loop: no provider is instantiated or authenticated, nothing is written
\* to the output file, to standard output or to the vault, and nothing is
\* committed or pushed.
C34_BadSetupIsFatalBeforeRun ==
    /\ [](AbortedBeforeRun =>
            /\ cliPc = "exit"
            /\ cliExit = 1
            /\ cliProviders = <<>>
            /\ \A e \in 1..Len(cliEvents) :
                  cliEvents[e].ev \notin
                      {"authenticate", "fetchArticles", "write", "stdout",
                       "triggerSync", "gitAdd", "gitCommit", "gitPush"}
            /\ git.ahead = 0)
    /\ [][AbortedBeforeRun' =>
            /\ fDirect' = fDirect
            /\ fVault' = fVault
            /\ git' = git]_vars

\* C34 happens: the credentials were resolved, the vault path given has no
\* .obsidian directory, and the process has exited with 1.
C34_Witness ==
    /\ cliPc = "exit"
    /\ cliExit = 1
    /\ vault.configured
    /\ ~vault.valid
    /\ cliEvents = <<Event("resolved", ""), Event("invalidVault", "")>>

\* C35: the 1Password backend answers isAvailable() with true only when
\* the op tool is installed and an account is signed in; with the tool
\* installed and no account signed in it is not in listAvailableProviders()
\* and a reference to it fails to resolve with the not-available error.
C35_OnePasswordNeedsSignIn ==
    LET last == credManager.last
    IN /\ (last.call = "isAvailable" /\ last.backend = "1password") =>
             (last.value.value =
                 ("1password" \in credManager.installed /\ credManager.signedIn))
       /\ (last.call = "listAvailableProviders" /\ ~credManager.signedIn) =>
             \A k \in 1..Len(last.value) : last.value[k] # "1password"
       /\ (/\ last.call = "resolveCredential"
           /\ last.arg.isRef
           /\ last.arg.provider = "1password"
           /\ ~credManager.signedIn) =>
             /\ last.value.threw
             /\ last.value.message = "Credential provider '1password' not available"

\* The text s without the line break at its end, if it has one.
StripNewline(s) ==
    IF Len(s) > 0 /\ SubSeq(s, Len(s), Len(s)) = "\n" THEN SubSeq(s, 1, Len(s) - 1)
    ELSE s

\* C36: what a run of the CLI writes holds the rendered articles of its
\* providers in catalog order and, within a provider, in the order they
\* were extracted, and between two consecutive rendered articles there is
\* an empty line, whether the template ends in a line break or not.
C36_BatchInOrderWithBlankLines ==
    \A e \in 1..Len(cliEvents) :
        cliEvents[e].ev \in {"write", "stdout"} =>
            LET out == cliEvents[e].who
                blocks == [k \in 1..Len(allArticles) |->
                              formatArticle(allArticles[k], settings.template)]
            IN /\ allArticles = Returned(e)
               /\ \A i, j \in 1..Len(cliProviders) :
                     i < j => Position(cliProviders[i].name) <
                                  Position(cliProviders[j].name)
               /\ IsPrefix(blocks[1], out)
               /\ \A k \in 1..(Len(blocks) - 1) :
                     Contains(out, StripNewline(blocks[k]) \o "\n\n" \o blocks[k + 1])

\* The providers of a loop that were asked to authenticate and have no
\* result yet.
InFlight(loop) ==
    {k \in 1..Len(loop.providers) :
        HasEvent(loop.events, "authenticate", k) /\ ResultsOf(loop, k) = <<>>}

\* C37: in one provider loop authenticate of the provider at position
\* k + 1 is called only once a result is recorded for the provider at
\* position k, the providers are taken in the order of their positions, and
\* at most one provider is between its authenticate and its result.
C37_ProvidersOneAfterAnother ==
    \A loop \in Loops :
        /\ \A k \in 1..(Len(loop.providers) - 1) :
              HasEvent(loop.events, "authenticate", k + 1) =>
                  /\ HasEvent(loop.events, "authenticate", k)
                  /\ ResultsOf(loop, k) # <<>>
        /\ Cardinality(InFlight(loop)) <= 1

\* C37 happens: in a run of the plugin the first provider has its result
\* and the second is authenticated and has none yet.
C37_Witness ==
    \E i \in 1..Len(runs) :
        /\ Len(runs[i].providers) = 2
        /\ runs[i].idx = 2
        /\ runs[i].pc = "fetch"
        /\ Len(runs[i].results) = 1
        /\ runs[i].results[1].success
        /\ InFlight(RunLoop(i)) = {2}

\* The sum of articlesAdded over the first k results of the CLI's loop.
RECURSIVE SumAdded(_)
SumAdded(k) ==
    IF k = 0 THEN 0 ELSE SumAdded(k - 1) + cliResults[k].articlesAdded

\* C38: at every point of a run of the CLI the articles collected are as
\* many as the results recorded so far add up to, a failed result counts no
\* article and has its error, and the count in the commit message and in the
\* report of completion is that sum.
C38_ArticleAccounting ==
    /\ Len(allArticles) = SumAdded(Len(cliResults))
    /\ \A k \in 1..Len(cliResults) :
          ~cliResults[k].success =>
              /\ cliResults[k].articlesAdded = 0
              /\ cliResults[k].error \notin {Undefined, ""}
    /\ \A e \in 1..Len(cliEvents) :
          /\ cliEvents[e].ev = "gitCommit" =>
                cliEvents[e].who =
                    "chore: sync read-later articles ("
                        \o ToString(SumAdded(Len(cliResults))) \o " articles)"
          /\ cliEvents[e].ev = "complete" =>
                cliEvents[e].who = SumAdded(Len(cliResults))

\* C38 happens: of two providers one failed and one returned two articles,
\* which were written, committed and reported.
C38_Witness ==
    /\ cliPc = "exit"
    /\ Len(cliResults) = 2
    /\ ~cliResults[1].success
    /\ cliResults[2].articlesAdded = 2
    /\ Len(allArticles) = 2
    /\ \E e \in 1..Len(cliEvents) :
          /\ cliEvents[e].ev = "gitCommit"
          /\ cliEvents[e].who = "chore: sync read-later articles (2 articles)"
    /\ \E e \in 1..Len(cliEvents) :
          cliEvents[e].ev = "complete" /\ cliEvents[e].who = 2

\* fetchArticles of provider number k returned no article in the history
\* events.
FetchedNone(events, k) ==
    \E e \in 1..(Len(events) - 1) :
        /\ events[e].ev = "fetchArticles"
        /\ events[e].who = k
        /\ events[e + 1].ev = "fetched"
        /\ events[e + 1].who = 0

\* C39: a run of the CLI that collected no article writes nothing, in
\* append mode and in replace mode: the output file, the file of the vault
\* and the repository stay as they are, nothing goes to standard output,
\* the sync is not triggered and nothing is committed or pushed.  In the
\* plugin a provider that returned no article has the note neither created
\* nor written.
C39_NoArticlesNoWrite ==
    /\ [](/\ CliEvent("noArticles") =>
                \A e \in 1..Len(cliEvents) :
                    cliEvents[e].ev \notin
                        {"write", "stdout", "triggerSync", "gitAdd", "gitDiff",
                         "gitCommit", "gitPush", "complete"}
          /\ \A i \in 1..Len(runs) : \A k \in 1..Len(runs[i].providers) :
                FetchedNone(runs[i].events, k) =>
                    /\ ~HasEvent(runs[i].events, "create", k)
                    /\ ~HasEvent(runs[i].events, "write", k))
    /\ [][(cliPc = "save" /\ Len(allArticles) = 0) =>
            /\ fDirect' = fDirect
            /\ fVault' = fVault
            /\ git' = git
            /\ cliEvents' = Append(cliEvents, [ev |-> "noArticles", who |-> ""])]_vars

\* C39 happens: in replace mode and with git sync the one provider returned
\* no article; the run is over without a failure and the file of the vault
\* holds what it held.
C39_Witness ==
    /\ cliPc = "exit"
    /\ cliExit = 0
    /\ ~settings.appendMode
    /\ GitSyncOn
    /\ Len(cliResults) = 1
    /\ cliResults[1].success
    /\ CliEvent("noArticles")
    /\ fVault = [exists |-> TRUE, content |-> "old"]
    /\ git = [head |-> [exists |-> TRUE, content |-> "old"], ahead |-> 0]

\* C40: the plugin has at most one interval timer at any time and none once
\* it is unloaded; called in any state the plugin gets into,
\* updateSyncInterval leaves exactly one timer when settings.syncInterval is
\* above 0 and none when it is 0, and onunload leaves none.
C40_AtMostOneTimer ==
    /\ Cardinality(plugin.timers) <= 1
    /\ plugin.stage = "unloaded" => plugin.timers = {}
    /\ plugin.stage \in {"constructed", "loaded", "unloaded"} =>
          /\ \A v \in SyncIntervals :
                Cardinality(updateSyncInterval(
                    plugin, [settings EXCEPT !.syncInterval = v]).timers) =
                    IF v > 0 THEN 1 ELSE 0
          /\ onunload(plugin).timers = {}
    /\ (plugin.stage = "loaded" /\ plugin.timers # {}) =>
          plugin.timers = {plugin.syncInterval}

\* C40 happens: onload set a timer, the settings tab replaced it twice, and
\* the third timer is the one that runs.
C40_Witness ==
    /\ plugin.stage = "loaded"
    /\ plugin.nextTimer = 4
    /\ plugin.syncInterval = 3
    /\ plugin.timers = {3}
====
